---- MODULE Spec2Model ----
(***************************************************************************)
(* Schema-resolution chain of hflav_zenodo: ZenodoSchemaHandler ->         *)
(* GitlabSchemaHandler -> TemplateSchemaHandler, as wired by Container,    *)
(* together with the collaborators the handlers call (the Zenodo source,   *)
(* the GitLab client and the conversor).                                   *)
(***************************************************************************)
EXTENDS Integers, Sequences, FiniteSets, TLC

VARIABLES
    template,        \* first argument of handle: rec_id and the two markers
    data_path,       \* second argument of handle
    next_handler,    \* the _next_handler link of every handler
    zenodo_record,   \* what the Zenodo record of the template serves
    gitlab_project,  \* what the GitLab project hflav/shared/hflav-fair serves
    pc,              \* handler whose handle() runs next, "idle" or "done"
    entered,         \* handlers whose handle() was entered in this call
    calls,           \* collaborator calls made in this call, in order
    raised,          \* exceptions raised in this call, in order
    result,          \* outcome of this call of handle
    call_no,         \* number of handle calls started on the chain
    prev,            \* outcome and collaborator calls of the previous call
    json_template,   \* the template example given to DynamicConversor.from_json
    document,        \* the JSON document of the data file / data argument
    schema_file,     \* the JSON Schema stored at the schema path
    conv_call,       \* the conversor operation called last, with its arguments
    conv_result,     \* outcome of that operation
    opened,          \* paths passed to open() during that operation, in order
    printed,         \* visualizer methods called during that operation, in order
    svc_source,      \* what the SourceInterface collaborator of Service does
    handler_chain,   \* what handler_schema_chain.handle does for Service
    zenodo_versions, \* what Zenodo serves for the template concept record
    svc_call,        \* the service / source operation called last
    svc_pc,          \* the statement of load_data_file that runs next
    svc_locals,      \* local variables of load_data_file assigned so far
    svc_calls,       \* collaborator calls made by the operation, in order
    svc_result,      \* outcome of the operation
    qb_filters,      \* QueryBuilder.filters
    qb_sort,         \* QueryBuilder.sort
    qb_page_size,    \* QueryBuilder.page_size
    qb_page,         \* QueryBuilder.page
    qb_ops,          \* number of builder methods called before build
    qb_call,         \* the builder method called last, with its argument
    query,           \* the query object build() returned
    params,          \* what build_params() of that query returned
    data_lines,      \* the lines of the data file, as readlines() gives them
    schema_version,  \* outcome of _try_to_get_schema_version on that file
    cmd_behaviour,   \* what execute() and undo() of each command do
    inv_command,     \* CommandInvoker._command
    inv_history,     \* CommandInvoker._history._history
    inv_log,         \* invoker calls and the command methods they called
    inv_result,      \* outcome of the invoker call made last
    found_records,   \* what service.search_records_by_name does
    load_outcome,    \* what service.load_data_file does
    exe_pc,          \* the statement of SearchAndLoadDataFile.execute that runs next
    exe_query,       \* SearchAndLoadDataFile._query
    selected_record, \* local variable of execute
    selected_file,   \* local variable of execute
    exe_events,      \* searches, input() reads and loads of this execution
    exe_result       \* outcome of execute

chain_vars == <<template, data_path, next_handler, zenodo_record,
                gitlab_project, pc, entered, calls, raised, result, call_no,
                prev>>

conv_vars == <<json_template, document, schema_file, conv_call, conv_result,
               opened, printed>>

svc_vars == <<svc_source, handler_chain, zenodo_versions, svc_call, svc_pc,
              svc_locals, svc_calls, svc_result>>

\* Everything that is not state of the handler chain.
qb_vars == <<qb_filters, qb_sort, qb_page_size, qb_page, qb_ops, qb_call,
             query, params>>

ver_vars == <<data_lines, schema_version>>

inv_vars == <<cmd_behaviour, inv_command, inv_history, inv_log, inv_result>>

exe_vars == <<found_records, load_outcome, exe_pc, exe_query, selected_record,
              selected_file, exe_events, exe_result>>

\* State of the data-file scan, the command invoker and the load command.
rest_vars == <<ver_vars, inv_vars, exe_vars>>

other_vars == <<conv_vars, svc_vars, qb_vars, rest_vars>>

vars == <<chain_vars, other_vars>>

\* Number of times handle is called on the same chain.
MaxCalls == 2

None == "None"

----------------------------------------------------------------------------
\* Text.  A Python str that the code inspects is a sequence of characters.

\* str.startswith(prefix) at offset i (1-based)
MatchesAt(s, sub, i) ==
    /\ i + Len(sub) - 1 <= Len(s)
    /\ \A k \in 1..Len(sub) : s[i + k - 1] = sub[k]

\* `sub in s`
Contains(s, sub) == \E i \in 1..(Len(s) + 1) : MatchesAt(s, sub, i)

\* s.endswith(suffix)
EndsWith(s, suffix) ==
    /\ Len(suffix) <= Len(s)
    /\ MatchesAt(s, suffix, Len(s) - Len(suffix) + 1)

\* s.split(sep) for a one-character separator
RECURSIVE SplitFrom(_, _, _, _)
SplitFrom(s, sep, i, cur) ==
    IF i > Len(s) THEN <<cur>>
    ELSE IF s[i] = sep THEN <<cur>> \o SplitFrom(s, sep, i + 1, <<>>)
    ELSE SplitFrom(s, sep, i + 1, Append(cur, s[i]))

Split(s, sep) == SplitFrom(s, sep, 1, <<>>)

\* s.strip(chars): drop leading and trailing characters that are in chars
RECURSIVE LStrip(_, _)
LStrip(s, chars) ==
    IF s # <<>> /\ Head(s) \in chars THEN LStrip(Tail(s), chars) ELSE s

RECURSIVE RStrip(_, _)
RStrip(s, chars) ==
    IF s # <<>> /\ s[Len(s)] \in chars
    THEN RStrip(SubSeq(s, 1, Len(s) - 1), chars) ELSE s

Strip(s, chars) == RStrip(LStrip(s, chars), chars)

Whitespace == {" ", "\n", "\t"}

----------------------------------------------------------------------------
\* Outcomes of calls: a returned value or a raised exception.

Return(v) == [kind |-> "return", val |-> v]
Raise(type, msg) == [kind |-> "raise", val |-> [type |-> type, msg |-> msg]]

IsReturn(o) == o.kind = "return"
IsRaise(o) == o.kind = "raise"

\* Exception classes that derive from ValueError (json.JSONDecodeError does).
ValueErrorClasses == {"ValueError", "JSONDecodeError"}

\* Exception classes of exceptions/source_exceptions.py: each sets self.message.
SourceExceptionClasses ==
    {"DataAccessException", "DataNotFoundException",
     "NoSchemaFoundInsideGitlabRepository", "NoVersionTagFound"}

HasMessageAttribute(e) == e.type \in SourceExceptionClasses

PreconditionMessages ==
    {"No id or filename given", "Schema and data path must be provided"}

IsPreconditionViolation(e) ==
    e.type = "ValueError" /\ e.msg \in PreconditionMessages

----------------------------------------------------------------------------
\* Local files.  The data file handed to handle is one of two downloaded
\* files; the empty path names no file.

SchemaWord == <<"s", "c", "h", "e", "m", "a">>
SchemaSuffix == <<".", "s", "c", "h", "e", "m", "a">>
TagMain == <<"m", "a", "i", "n">>
TagV1 == <<"v", "1">>

\* "$schema": "h:/",   -- contains 'schema', splits on ':' into three parts
LineSchemaUrl ==
    <<"\"", "$", "s", "c", "h", "e", "m", "a", "\"", ":", " ",
      "\"", "h", ":", "/", "\"", ",", "\n">>

\*   "schema": "v1",   -- contains 'schema', splits on ':' into two parts
LineSchemaV1 ==
    <<" ", "\"", "s", "c", "h", "e", "m", "a", "\"", ":", " ",
      "\"", "v", "1", "\"", ",", "\n">>

\*   "name": "a"       -- does not contain 'schema'
LineName ==
    <<" ", "\"", "n", "a", "m", "e", "\"", ":", " ", "\"", "a", "\"", "\n">>

DataPaths == {"", "a.json", "b.json"}

FileLines(path) ==
    CASE path = "a.json" -> <<LineSchemaUrl, LineName>>
      [] path = "b.json" -> <<LineName, LineSchemaV1, LineSchemaUrl>>

FileExists(path) == path \in {"a.json", "b.json"}

\* Variant: a line that splits on ':' into two or more parts names the version.
RECURSIVE ScanLines_TwoOrMoreParts(_, _)
ScanLines_TwoOrMoreParts(lines, i) ==
    IF i > Len(lines) THEN TagMain
    ELSE IF Contains(lines[i], SchemaWord) /\ Len(Split(lines[i], ":")) >= 2
         THEN Strip(Strip(Split(lines[i], ":")[2], Whitespace), {"\"", ","})
         ELSE ScanLines_TwoOrMoreParts(lines, i + 1)

\* GitlabSchemaHandler._try_to_get_schema_version: the loop over data_lines
RECURSIVE ScanLines(_, _)
ScanLines(lines, i) ==
    IF i > Len(lines) THEN TagMain
    ELSE IF Contains(lines[i], SchemaWord) /\ Len(Split(lines[i], ":")) = 2
         THEN Strip(Strip(Split(lines[i], ":")[2], Whitespace), {"\"", ","})
         ELSE ScanLines(lines, i + 1)

TryToGetSchemaVersion(path) ==
    IF ~FileExists(path)
    THEN Raise("FileNotFoundError", "No such file or directory")
    ELSE Return(ScanLines(FileLines(path), 1))

----------------------------------------------------------------------------
\* Collaborator calls are logged as they are made.

Call(by, op, id, file, ref) ==
    [by |-> by, op |-> op, id |-> id, file |-> file, ref |-> ref]

WithApi(o, api) == [kind |-> o.kind, val |-> o.val, api |-> api]

----------------------------------------------------------------------------
\* JSON Schema documents, seen through what they accept.  origin records
\* where the document came from; empty is the document {} (falsy in Python).

Schema(origin, content) ==
    [origin |-> origin,
     empty |-> (content = "{}"),
     accepts |-> CASE content = "{}" -> {"a.json", "b.json"}
                   [] content = "for_a" -> {"a.json"}
                   [] content = "for_ab" -> {"a.json", "b.json"}]

\* json.load / json.loads of a document
LoadJson(origin, content) ==
    IF content = "invalid"
    THEN Raise("JSONDecodeError", "Expecting value")
    ELSE Return(Schema(origin, content))

----------------------------------------------------------------------------
\* GitLab client (source/source_gitlab_client.py).

Blob(name, path) == [type |-> "blob", name |-> name, path |-> path]
Tree(name, path) == [type |-> "tree", name |-> name, path |-> path]
NoItem == [type |-> "None", name |-> <<>>, path |-> ""]

Listing(items) == [ok |-> TRUE, items |-> items]
ListingError == [ok |-> FALSE, items |-> <<>>]

SchemaBlob(path) == Blob(<<"t">> \o SchemaSuffix, path)
ReadmeBlob(path) == Blob(<<"R", "E", "A", "D", "M", "E">>, path)

\* Repository trees: path |-> result of repository_tree(path, recursive=False)
TreeRootSchema == [p \in {""} |-> Listing(<<ReadmeBlob("README"), SchemaBlob("t.schema")>>)]
TreeNested ==
    [p \in {"", "d"} |->
        IF p = "" THEN Listing(<<Tree(<<"d">>, "d")>>)
        ELSE Listing(<<SchemaBlob("d/t.schema")>>)]
TreeNoSchema ==
    [p \in {"", "d"} |->
        IF p = "" THEN Listing(<<ReadmeBlob("README"), Tree(<<"d">>, "d")>>)
        ELSE Listing(<<>>)]
TreeDirFirst ==
    [p \in {"", "d"} |->
        IF p = "" THEN Listing(<<Tree(<<"d">>, "d"), SchemaBlob("t.schema")>>)
        ELSE Listing(<<ReadmeBlob("d/README")>>)]
TreeUnlistable == [p \in {""} |-> ListingError]

Trees == {TreeRootSchema, TreeNested, TreeNoSchema, TreeDirFirst, TreeUnlistable}

GitlabContents == {"GitlabGetError", "invalid", "{}", "for_a", "for_ab"}

GitlabProjects ==
    [tree : Trees, tags : {{TagMain}, {TagMain, TagV1}}, content : GitlabContents]

\* SourceGitlabClient._search_schema
RECURSIVE SearchSchema(_, _)
RECURSIVE SearchItems(_, _, _)
SearchSchema(tree, path) ==
    LET listed == <<Call("Gitlab", "repository_tree", 0, path, <<>>)>>
    IN  IF ~tree[path].ok
        THEN WithApi(Raise("NoSchemaFoundInsideGitlabRepository",
                           "No schema found inside the GitLab repository"),
                     listed)
        ELSE LET r == SearchItems(tree, tree[path].items, 1)
             IN  WithApi(r, listed \o r.api)

SearchItems(tree, items, i) ==
    IF i > Len(items) THEN WithApi(Return(NoItem), <<>>)
    ELSE IF items[i].type = "tree"
         THEN SearchSchema(tree, items[i].path)
         ELSE IF items[i].type = "blob" /\ EndsWith(items[i].name, SchemaSuffix)
              THEN WithApi(Return(items[i]), <<>>)
              ELSE SearchItems(tree, items, i + 1)

\* SourceGitlabClient._get_tag_name
GetTagName(project, tag_name) ==
    WithApi(IF tag_name \in project.tags
            THEN Return(tag_name)
            ELSE Raise("NoVersionTagFound", "Tag not found in the GitLab repository"),
            <<Call("Gitlab", "tags.get", 0, "", tag_name)>>)

\* SourceGitlabClient._get_file_content
GetFileContent(project, file_path, ref) ==
    WithApi(IF project.content = "GitlabGetError"
            THEN Raise("GitlabGetError", "404 File Not Found")
            ELSE Return(project.content),
            <<Call("Gitlab", "files.get", 0, file_path, ref)>>)

\* SourceGitlabClient.get_schema_inside_repository
GetSchemaInsideRepository(project, tag_version) ==
    LET schema == SearchSchema(project.tree, "")
    IN  IF IsRaise(schema) THEN schema
        ELSE IF schema.val = NoItem
        THEN WithApi(Raise("TypeError", "'NoneType' object is not subscriptable"),
                     schema.api)
        ELSE
        LET tag == GetTagName(project, tag_version)
        IN  IF IsRaise(tag) THEN WithApi(tag, schema.api \o tag.api)
            ELSE
            LET content == GetFileContent(project, schema.val.path, tag.val)
                api == schema.api \o tag.api \o content.api
            IN  IF IsRaise(content) THEN WithApi(content, api)
                ELSE IF IsRaise(LoadJson("gitlab", content.val))
                THEN WithApi(Raise("ValueError", "Invalid JSON in schema file"), api)
                ELSE WithApi(LoadJson("gitlab", content.val), api)

----------------------------------------------------------------------------
\* Zenodo source (source/source_interface.py) and conversor
\* (conversors/conversor_interface.py), as the handlers use them.

SchemaFileName == "schema.json"
TemplateFileName == "template.json"

SchemaFileStates == {"DataNotFoundException", "invalid", "{}", "for_a", "for_ab"}
TemplateFileStates == {"DataAccessException", "invalid", "for_a", "for_ab"}

ZenodoRecords == [schema_file : SchemaFileStates, template_file : TemplateFileStates]

FileState(record, filename) ==
    IF filename = SchemaFileName THEN record.schema_file ELSE record.template_file

\* SourceInterface.download_file_by_id_and_filename
DownloadFileByIdAndFilename(record, id, filename) ==
    IF id = 0 \/ filename \in {None, ""}
    THEN Raise("ValueError", "No id or filename given")
    ELSE IF FileState(record, filename) \in SourceExceptionClasses
    THEN Raise(FileState(record, filename), "download failed")
    ELSE Return(filename)

\* ConversorInterface.generate_json_schema
GenerateJsonSchema(record, file_path) ==
    LoadJson("inferred", FileState(record, file_path))

\* ConversorInterface.generate_instance_from_schema_and_data
GenerateInstanceFromSchemaAndData(schema, path) ==
    IF schema.empty \/ path \in {None, ""}
    THEN Raise("ValueError", "Schema and data path must be provided")
    ELSE IF ~FileExists(path)
    THEN Raise("FileNotFoundError", "No such file or directory")
    ELSE IF path \notin schema.accepts
    THEN Raise("StructureException", "Data structure does not match schema")
    ELSE Return([schema |-> schema, data |-> path])

----------------------------------------------------------------------------
\* Templates (models.Template as the handlers read it): rec_id and the two
\* markers jsonschema / jsontemplate, each None or a File with a name.

Templates ==
    [rec_id : {0, 42},
     jsonschema : {None, SchemaFileName},
     jsontemplate : {None, TemplateFileName}]

NoOutcome == [kind |-> "none", val |-> [type |-> None, msg |-> None]]

\* What one handler's handle() did: forwarded to the next handler, or
\* finished the call with an outcome.
Forward(made, excs) ==
    [forward |-> TRUE, out |-> NoOutcome, calls |-> made, raised |-> excs]

Finish(o, made, excs) ==
    [forward |-> FALSE, out |-> [kind |-> o.kind, val |-> o.val], calls |-> made,
     raised |-> IF IsRaise(o) THEN Append(excs, o.val) ELSE excs]

----------------------------------------------------------------------------
\* ZenodoSchemaHandler

\* Variant: the embedded schema is used only when there is no template file.
ZenodoCanHandle_OnlyWithoutTemplate(t, d) ==
    t.jsonschema # None /\ t.jsontemplate = None

ZenodoCanHandle(t, d) == t.jsonschema # None

\* handle, lines after the can_handle check
ZenodoAttempt(t, d, record) ==
    LET schema_path == DownloadFileByIdAndFilename(record, t.rec_id, t.jsonschema)
        c1 == <<Call("Zenodo", "download_file_by_id_and_filename",
                     t.rec_id, t.jsonschema, <<>>)>>
    IN  IF IsRaise(schema_path) THEN Finish(schema_path, c1, <<>>)
        ELSE
        LET schema == LoadJson("zenodo", FileState(record, schema_path.val))
            c2 == Append(c1, Call("Zenodo", "json.load", 0, schema_path.val, <<>>))
        IN  IF IsRaise(schema) THEN Finish(schema, c2, <<>>)
            ELSE Finish(GenerateInstanceFromSchemaAndData(schema.val, d),
                        Append(c2, Call("Zenodo",
                                        "generate_instance_from_schema_and_data",
                                        0, d, <<>>)),
                        <<>>)

\* Variant: a failed download or parse of the embedded schema is swallowed
\* and the request is passed on.
ZenodoRun_ForwardOnError(t, d, record) ==
    IF ~ZenodoCanHandle(t, d) THEN Forward(<<>>, <<>>)
    ELSE LET r == ZenodoAttempt(t, d, record)
         IN  IF IsRaise(r.out) /\ Len(r.calls) < 3
             THEN Forward(r.calls, r.raised)
             ELSE r

ZenodoRun(t, d, record) ==
    IF ~ZenodoCanHandle(t, d) THEN Forward(<<>>, <<>>)
    ELSE ZenodoAttempt(t, d, record)

----------------------------------------------------------------------------
\* GitlabSchemaHandler

\* Variant: the GitLab strategy looks at the wrong marker.
GitlabCanHandle_WrongMarker(t, d) == t.jsonschema = None

GitlabCanHandle(t, d) == t.jsontemplate # None

\* except (ValueError, NoSchemaFoundInsideGitlabRepository, NoVersionTagFound)
\* Variant: the except clause omits NoVersionTagFound.
GitlabCatches_NoTag(e) ==
    e.type \in ValueErrorClasses \cup {"NoSchemaFoundInsideGitlabRepository"}

GitlabCatches(e) ==
    e.type \in ValueErrorClasses
                 \cup {"NoSchemaFoundInsideGitlabRepository", "NoVersionTagFound"}

\* the body of the try block
GitlabRetrieve(d, project) ==
    LET version == TryToGetSchemaVersion(d)
        c0 == <<Call("Gitlab", "open", 0, d, <<>>)>>
    IN  IF IsRaise(version) THEN WithApi(version, c0)
        ELSE LET got == GetSchemaInsideRepository(project, version.val)
             IN  WithApi(got,
                         Append(c0, Call("Gitlab", "get_schema_inside_repository",
                                         0, "", version.val)) \o got.api)

\* handle, lines after the can_handle check: try / except / conversion
GitlabAttempt(t, d, project) ==
    LET schema_dict == GitlabRetrieve(d, project)
    IN  IF IsRaise(schema_dict)
        THEN IF GitlabCatches(schema_dict.val)
             THEN IF HasMessageAttribute(schema_dict.val)
                  THEN Forward(schema_dict.api, <<schema_dict.val>>)
                  ELSE Finish(Raise("AttributeError",
                                    "object has no attribute 'message'"),
                              schema_dict.api, <<schema_dict.val>>)
             ELSE Finish(schema_dict, schema_dict.api, <<>>)
        ELSE Finish(GenerateInstanceFromSchemaAndData(schema_dict.val, d),
                    Append(schema_dict.api,
                           Call("Gitlab", "generate_instance_from_schema_and_data",
                                0, d, <<>>)),
                    <<>>)

\* Variant: the conversion is inside the try block, so its errors meet the
\* except clause too.
GitlabRun_ConvertInsideTry(t, d, project) ==
    IF ~GitlabCanHandle(t, d) THEN Forward(<<>>, <<>>)
    ELSE LET r == GitlabAttempt(t, d, project)
         IN  IF ~r.forward /\ IsRaise(r.out)
                /\ IsReturn(GitlabRetrieve(d, project))
                /\ GitlabCatches(r.out.val)
             THEN Finish(Raise("AttributeError", "object has no attribute 'message'"),
                         r.calls, r.raised)
             ELSE r

\* Variant: the schema is fetched before can_handle is consulted.
GitlabRun_RetrieveFirst(t, d, project) ==
    IF ~GitlabCanHandle(t, d)
    THEN Forward(GitlabRetrieve(d, project).api, <<>>)
    ELSE GitlabAttempt(t, d, project)

GitlabRun(t, d, project) ==
    IF ~GitlabCanHandle(t, d) THEN Forward(<<>>, <<>>)
    ELSE GitlabAttempt(t, d, project)

----------------------------------------------------------------------------
\* TemplateSchemaHandler

TemplateCanHandle(t, d) == t.jsontemplate # None

\* Variant: the schema is inferred from the data file, not from the template.
TemplateRun_InferFromData(t, d, record) ==
    IF ~TemplateCanHandle(t, d)
    THEN Finish(Raise("Exception",
                      "No handler available for this template and data path"),
                <<>>, <<>>)
    ELSE
    LET template_path ==
            DownloadFileByIdAndFilename(record, t.rec_id, t.jsontemplate)
        c1 == <<Call("Template", "download_file_by_id_and_filename",
                     t.rec_id, t.jsontemplate, <<>>)>>
    IN  IF IsRaise(template_path) THEN Finish(template_path, c1, <<>>)
        ELSE
        LET schema == GenerateJsonSchema(record, d)
            c2 == Append(c1, Call("Template", "generate_json_schema",
                                  0, d, <<>>))
        IN  IF IsRaise(schema) THEN Finish(schema, c2, <<>>)
            ELSE Finish(GenerateInstanceFromSchemaAndData(schema.val, d),
                        Append(c2, Call("Template",
                                        "generate_instance_from_schema_and_data",
                                        0, d, <<>>)),
                        <<>>)

TemplateRun(t, d, record) ==
    IF ~TemplateCanHandle(t, d)
    THEN Finish(Raise("Exception",
                      "No handler available for this template and data path"),
                <<>>, <<>>)
    ELSE
    LET template_path ==
            DownloadFileByIdAndFilename(record, t.rec_id, t.jsontemplate)
        c1 == <<Call("Template", "download_file_by_id_and_filename",
                     t.rec_id, t.jsontemplate, <<>>)>>
    IN  IF IsRaise(template_path) THEN Finish(template_path, c1, <<>>)
        ELSE
        LET schema == GenerateJsonSchema(record, template_path.val)
            c2 == Append(c1, Call("Template", "generate_json_schema",
                                  0, template_path.val, <<>>))
        IN  IF IsRaise(schema) THEN Finish(schema, c2, <<>>)
            ELSE Finish(GenerateInstanceFromSchemaAndData(schema.val, d),
                        Append(c2, Call("Template",
                                        "generate_instance_from_schema_and_data",
                                        0, d, <<>>)),
                        <<>>)

----------------------------------------------------------------------------
\* The chain as a state machine.

Handlers == {"Zenodo", "Gitlab", "Template"}

\* Variant: the Zenodo handler is linked to the template handler directly.
ContainerWiring_SkipGitlab ==
    [h \in Handlers |->
        CASE h = "Zenodo" -> "Template"
          [] h = "Gitlab" -> "Template"
          [] h = "Template" -> None]

\* Container.handler_schema_chain: zh.set_next(gh), gh.set_next(th), head zh
ContainerWiring ==
    [h \in Handlers |->
        CASE h = "Zenodo" -> "Gitlab"
          [] h = "Gitlab" -> "Template"
          [] h = "Template" -> None]

\* Variant: the container hands out the GitLab handler as head of the chain.
ChainHead_Gitlab == "Gitlab"

ChainHead == "Zenodo"

\* No conversor operation has been called.
NoCall == [op |-> None]

ConvIdle ==
    /\ json_template = [t |-> "None"]
    /\ document = [t |-> "None"]
    /\ schema_file = [t |-> "None"]
    /\ conv_call = NoCall
    /\ conv_result = NoOutcome
    /\ opened = <<>>
    /\ printed = <<>>

SvcIdle ==
    /\ svc_source = [t |-> "None"]
    /\ handler_chain = NoOutcome
    /\ zenodo_versions = [t |-> "None"]
    /\ svc_call = NoCall
    /\ svc_pc = "idle"
    /\ svc_locals = <<>>
    /\ svc_calls = <<>>
    /\ svc_result = NoOutcome

QbIdle ==
    /\ qb_filters = <<>>
    /\ qb_sort = <<>>
    /\ qb_page_size = 10
    /\ qb_page = 1
    /\ qb_ops = 0
    /\ qb_call = NoCall
    /\ query = [t |-> "None"]
    /\ params = [t |-> "None"]

VerIdle ==
    /\ data_lines = <<>>
    /\ schema_version = NoOutcome

InvIdle ==
    /\ cmd_behaviour = [t |-> "None"]
    /\ inv_command = None
    /\ inv_history = <<>>
    /\ inv_log = <<>>
    /\ inv_result = NoOutcome

ExeIdle ==
    /\ found_records = NoOutcome
    /\ load_outcome = NoOutcome
    /\ exe_pc = "idle"
    /\ exe_query = <<>>
    /\ selected_record = 0
    /\ selected_file = 0
    /\ exe_events = <<>>
    /\ exe_result = NoOutcome

RestIdle == VerIdle /\ InvIdle /\ ExeIdle

OthersIdle == ConvIdle /\ SvcIdle /\ QbIdle /\ RestIdle

Init ==
    /\ OthersIdle
    /\ template \in Templates
    /\ data_path \in DataPaths
    /\ next_handler = ContainerWiring
    /\ zenodo_record \in ZenodoRecords
    /\ gitlab_project \in GitlabProjects
    /\ pc = "idle"
    /\ entered = <<>>
    /\ calls = <<>>
    /\ raised = <<>>
    /\ result = NoOutcome
    /\ call_no = 0
    /\ prev = [result |-> NoOutcome, calls |-> <<>>, entered |-> <<>>]

\* The caller (Service.load_data_file) invokes handle(template, data_path)
\* on the head of the chain.
CallHandle ==
    /\ pc \in {"idle", "done"}
    /\ call_no < MaxCalls
    /\ call_no' = call_no + 1
    /\ prev' = IF pc = "done"
               THEN [result |-> result, calls |-> calls, entered |-> entered]
               ELSE prev
    /\ pc' = ChainHead
    /\ entered' = <<>>
    /\ calls' = <<>>
    /\ raised' = <<>>
    /\ result' = NoOutcome
    /\ UNCHANGED <<template, data_path, next_handler, zenodo_record, gitlab_project>>
    /\ UNCHANGED other_vars

\* One handler's handle(): its effects on the call in progress.
Step(h, r) ==
    /\ entered' = Append(entered, h)
    /\ calls' = calls \o r.calls
    /\ raised' = raised \o [i \in 1..Len(r.raised) |-> [by |-> h, exc |-> r.raised[i]]]
    /\ IF r.forward
       THEN pc' = next_handler[h] /\ result' = result
       ELSE pc' = "done" /\ result' = r.out
    /\ UNCHANGED <<template, data_path, next_handler, zenodo_record,
                   gitlab_project, call_no, prev>>
    /\ UNCHANGED other_vars

ZenodoHandle ==
    /\ pc = "Zenodo"
    /\ Step("Zenodo", ZenodoRun(template, data_path, zenodo_record))

\* Variant: a GitLab handler that passed the request on unlinks itself from
\* the chain.
GitlabHandle_Unlink ==
    /\ pc = "Gitlab"
    /\ LET r == GitlabRun(template, data_path, gitlab_project)
       IN  /\ entered' = Append(entered, "Gitlab")
           /\ calls' = calls \o r.calls
           /\ raised' = raised \o [i \in 1..Len(r.raised) |->
                                      [by |-> "Gitlab", exc |-> r.raised[i]]]
           /\ IF r.forward
              THEN /\ pc' = next_handler["Gitlab"]
                   /\ result' = result
                   /\ next_handler' =
                         [next_handler EXCEPT !["Zenodo"] = next_handler["Gitlab"]]
              ELSE /\ pc' = "done"
                   /\ result' = r.out
                   /\ next_handler' = next_handler
    /\ UNCHANGED <<template, data_path, zenodo_record, gitlab_project, call_no, prev>>
    /\ UNCHANGED other_vars

GitlabHandle ==
    /\ pc = "Gitlab"
    /\ Step("Gitlab", GitlabRun(template, data_path, gitlab_project))

TemplateHandle ==
    /\ pc = "Template"
    /\ Step("Template", TemplateRun(template, data_path, zenodo_record))

Next == CallHandle \/ ZenodoHandle \/ GitlabHandle \/ TemplateHandle

Spec == Init /\ [][Next]_vars

TypeOK ==
    /\ template \in Templates
    /\ data_path \in DataPaths
    /\ pc \in Handlers \cup {"idle", "done"}
    /\ call_no \in 0..MaxCalls
    /\ result.kind \in {"none", "return", "raise"}

----------------------------------------------------------------------------
\* Properties of the chain.

\* The record the conversor produces from a schema of the given origin.
RecordFrom(origin, content) ==
    [schema |-> Schema(origin, content), data |-> data_path]

\* C1: with both markers present and an embedded schema that downloads,
\* parses and validates, handle returns the record made from the embedded
\* schema and neither the GitLab retrieval nor the template download or
\* inference is attempted.
C1_EmbeddedSchemaWins ==
    (pc = "done" /\ template.jsonschema # None /\ template.jsontemplate # None
        /\ template.rec_id # 0
        /\ zenodo_record.schema_file \in {"for_a", "for_ab"}
        /\ data_path \in Schema("zenodo", zenodo_record.schema_file).accepts)
    => /\ result = Return(RecordFrom("zenodo", zenodo_record.schema_file))
       /\ entered = <<"Zenodo">>
       /\ \A i \in 1..Len(calls) : calls[i].by = "Zenodo"

C1_Witness ==
    /\ pc = "done" /\ template.jsonschema # None /\ template.jsontemplate # None
    /\ result.kind = "return" /\ result.val.schema.origin = "zenodo"
    /\ Len(calls) = 3

\* C2: without an embedded schema and with a template file, a GitLab
\* retrieval that raises NoSchemaFoundInsideGitlabRepository or
\* NoVersionTagFound makes handle fall through to TemplateInference and
\* return its result whenever template download, inference and validation
\* succeed.
C2_NotFoundFallsThrough ==
    (pc = "done" /\ template.jsonschema = None /\ template.jsontemplate # None
        /\ IsRaise(GitlabRetrieve(data_path, gitlab_project))
        /\ GitlabRetrieve(data_path, gitlab_project).val.type
               \in {"NoSchemaFoundInsideGitlabRepository", "NoVersionTagFound"}
        /\ template.rec_id # 0
        /\ zenodo_record.template_file \in {"for_a", "for_ab"}
        /\ data_path \in Schema("inferred", zenodo_record.template_file).accepts)
    => /\ result = Return(RecordFrom("inferred", zenodo_record.template_file))
       /\ entered = <<"Zenodo", "Gitlab", "Template">>

C2_Witness ==
    /\ pc = "done" /\ template.jsonschema = None
    /\ \E i \in 1..Len(raised) :
          raised[i] = [by |-> "Gitlab",
                       exc |-> [type |-> "NoVersionTagFound",
                                msg |-> "Tag not found in the GitLab repository"]]
    /\ result.kind = "return" /\ result.val.schema.origin = "inferred"

\* C3: with neither marker present handle raises the exhaustion error and
\* performs no download, no GitLab query and no conversion.
C3_Exhaustion ==
    (pc = "done" /\ template.jsonschema = None /\ template.jsontemplate = None)
    => /\ result = Raise("Exception",
                          "No handler available for this template and data path")
       /\ calls = <<>>

C3_Witness ==
    /\ pc = "done" /\ template.jsonschema = None /\ template.jsontemplate = None
    /\ result.kind = "raise" /\ result.val.type = "Exception"
    /\ entered = <<"Zenodo", "Gitlab", "Template">>

\* C4: a StructureException raised inside the EmbeddedSchema or GitLabSchema
\* strategy makes the chain advance; only a StructureException of the
\* terminal TemplateInference strategy reaches the caller of handle.
C4_StructureFailureAdvances ==
    \A i \in 1..Len(raised) :
        (pc = "done" /\ raised[i].exc.type = "StructureException"
            /\ raised[i].by \in {"Zenodo", "Gitlab"})
        => /\ entered[Len(entered)] # raised[i].by
           /\ result # [kind |-> "raise", val |-> raised[i].exc]

\* C5: when the schema file fetched from GitLab is malformed JSON, the
\* GitLab handler forwards to the next handler and returns its result; no
\* error of the GitLab strategy reaches the caller.
C5_MalformedSchemaForwards ==
    (pc = "done"
        /\ \E i \in 1..Len(raised) :
              raised[i] = [by |-> "Gitlab",
                           exc |-> [type |-> "ValueError",
                                    msg |-> "Invalid JSON in schema file"]])
    => /\ entered[Len(entered)] = "Template"
       /\ result = TemplateRun(template, data_path, zenodo_record).out

\* Some listing of the repository tree holds a blob whose name ends in
\* '.schema'.
TreeHasSchema(tree) ==
    \E p \in DOMAIN tree :
        \E i \in 1..Len(tree[p].items) :
            /\ tree[p].items[i].type = "blob"
            /\ EndsWith(tree[p].items[i].name, SchemaSuffix)

GitlabQueried ==
    \E i \in 1..Len(calls) : calls[i].op = "get_schema_inside_repository"

\* C6: when no file ending in '.schema' exists anywhere in the repository
\* tree, get_schema_inside_repository raises
\* NoSchemaFoundInsideGitlabRepository and nothing else, so the GitLab
\* strategy advances the chain to TemplateInference.
C6_NoSchemaRaisesNoSchemaFound ==
    (pc = "done" /\ GitlabQueried /\ ~TreeHasSchema(gitlab_project.tree))
    => /\ \E i \in 1..Len(raised) :
              /\ raised[i].by = "Gitlab"
              /\ raised[i].exc.type = "NoSchemaFoundInsideGitlabRepository"
       /\ \A i \in 1..Len(raised) :
              raised[i].by = "Gitlab"
              => raised[i].exc.type = "NoSchemaFoundInsideGitlabRepository"
       /\ entered = <<"Zenodo", "Gitlab", "Template">>

\* The error of downloading or parsing the embedded schema, if there is one.
EmbeddedFetchError ==
    LET dl == DownloadFileByIdAndFilename(zenodo_record, template.rec_id,
                                          template.jsonschema)
    IN  IF IsRaise(dl) THEN dl
        ELSE LoadJson("zenodo", FileState(zenodo_record, dl.val))

C8_PreconditionPropagates ==
    \A i \in 1..Len(raised) :
        IsPreconditionViolation(raised[i].exc)
        => /\ i = Len(raised)
           /\ pc = "done"
           /\ result = [kind |-> "raise", val |-> raised[i].exc]
           /\ entered[Len(entered)] = raised[i].by

C8_Witness ==
    /\ pc = "done"
    /\ \E i \in 1..Len(raised) :
          raised[i].by = "Gitlab" /\ IsPreconditionViolation(raised[i].exc)
    /\ result.kind = "raise" /\ result.val.type = "ValueError"

\* C9: a strategy whose can_handle is false makes no download, no GitLab
\* query and no conversion before the next strategy is consulted, and
\* can_handle depends on the template's markers only, never on data_path.
C9_DeclineWithoutIO ==
    [][/\ (pc = "Zenodo" /\ template.jsonschema = None)
           => (calls' = calls /\ pc' = next_handler["Zenodo"])
       /\ (pc = "Gitlab" /\ template.jsontemplate = None)
           => (calls' = calls /\ pc' = next_handler["Gitlab"])
       /\ (pc = "Template" /\ template.jsontemplate = None)
           => (calls' = calls /\ pc' = "done")
       /\ \A t \in Templates : \A d \in DataPaths :
              /\ ZenodoCanHandle(t, d) = (t.jsonschema # None)
              /\ GitlabCanHandle(t, d) = (t.jsontemplate # None)
              /\ TemplateCanHandle(t, d) = (t.jsontemplate # None)]_vars

C9_Witness ==
    /\ pc = "Template" /\ entered = <<"Zenodo", "Gitlab">>
    /\ template.jsonschema = None /\ template.jsontemplate = None
    /\ calls = <<>>

----------------------------------------------------------------------------
\* Properties of the GitLab retrieval, seen in the calls of the chain.

\* The tag version GitlabSchemaHandler.handle passes to the GitLab client.
RequestedTag == TryToGetSchemaVersion(data_path).val

FileContentFetched ==
    \E i \in 1..Len(calls) : calls[i].op = "files.get"

\* The errors SourceGitlabInterface.get_schema_inside_repository declares.
DeclaredGitlabErrors ==
    {"ValueError", "NoSchemaFoundInsideGitlabRepository", "NoVersionTagFound"}

\* C21: if the requested tag does not exist in the GitLab repository,
\* get_schema_inside_repository raises NoVersionTagFound and fetches no file
\* content at any ref.
C21_MissingTagRaisesNoVersionTag ==
    (GitlabQueried /\ RequestedTag \notin gitlab_project.tags)
    => /\ GetSchemaInsideRepository(gitlab_project, RequestedTag).kind = "raise"
       /\ GetSchemaInsideRepository(gitlab_project, RequestedTag).val.type
              = "NoVersionTagFound"
       /\ \E i \in 1..Len(raised) :
              /\ raised[i].by = "Gitlab"
              /\ raised[i].exc.type = "NoVersionTagFound"
       /\ ~FileContentFetched

\* C22: every failure of get_schema_inside_repository is one of its declared
\* errors (ValueError, NoSchemaFoundInsideGitlabRepository,
\* NoVersionTagFound), also when the located schema file cannot be fetched
\* at the requested tag, so GitlabSchemaHandler.handle catches every failure
\* of the GitLab retrieval.
C22_GitlabFailuresDeclared ==
    (GitlabQueried
        /\ IsRaise(GetSchemaInsideRepository(gitlab_project, RequestedTag)))
    => /\ GetSchemaInsideRepository(gitlab_project, RequestedTag).val.type
              \in DeclaredGitlabErrors
       /\ GitlabCatches(GetSchemaInsideRepository(gitlab_project, RequestedTag).val)

\* C23: if a file whose name ends in '.schema' exists anywhere in the
\* repository tree, _search_schema('') returns a '.schema' file, whatever
\* the order of each directory listing.
C23_SearchFindsSchema ==
    (GitlabQueried /\ TreeHasSchema(gitlab_project.tree))
    => /\ IsReturn(SearchSchema(gitlab_project.tree, ""))
       /\ SearchSchema(gitlab_project.tree, "").val.type = "blob"
       /\ EndsWith(SearchSchema(gitlab_project.tree, "").val.name, SchemaSuffix)

----------------------------------------------------------------------------
\* Properties of TemplateSchemaHandler and of the chain as a whole.

CallsBy(h) == SelectSeq(calls, LAMBDA c : c.by = h)

CallsOf(h, op) == SelectSeq(calls, LAMBDA c : c.by = h /\ c.op = op)

IsPrefix(s, full) == Len(s) <= Len(full) /\ s = SubSeq(full, 1, Len(s))

\* The three steps of the template strategy, as collaborator calls.
TemplateSteps ==
    << Call("Template", "download_file_by_id_and_filename",
            template.rec_id, template.jsontemplate, <<>>),
       Call("Template", "generate_json_schema", 0, template.jsontemplate, <<>>),
       Call("Template", "generate_instance_from_schema_and_data",
            0, data_path, <<>>) >>

\* C25: when template_file is present, TemplateSchemaHandler.handle does, in
\* this order and each exactly once, the download of template_file from
\* template.rec_id, the schema inference from the downloaded template file
\* (never from the data file) and the validation / conversion of the data
\* file against the inferred schema; a failing step prevents the later ones.
C25_TemplateStepsInOrder ==
    (pc = "done" /\ entered = <<"Zenodo", "Gitlab", "Template">>
        /\ template.jsontemplate # None)
    => /\ CallsBy("Template") # <<>>
       /\ IsPrefix(CallsBy("Template"), TemplateSteps)
       /\ IsRaise(DownloadFileByIdAndFilename(zenodo_record, template.rec_id,
                                              template.jsontemplate))
              => (Len(CallsBy("Template")) = 1 /\ IsRaise(result))
       /\ (Len(CallsBy("Template")) >= 2
              /\ IsRaise(GenerateJsonSchema(zenodo_record, template.jsontemplate)))
              => (Len(CallsBy("Template")) = 2 /\ IsRaise(result))
       /\ IsReturn(result)
              => /\ Len(CallsBy("Template")) = 3
                 /\ result.val.schema
                        = Schema("inferred", zenodo_record.template_file)
                 /\ result.val.data = data_path

C25_Witness ==
    /\ pc = "done" /\ entered = <<"Zenodo", "Gitlab", "Template">>
    /\ CallsBy("Template") = TemplateSteps
    /\ IsReturn(result) /\ result.val.schema.origin = "inferred"

TemplateDownloaded ==
    CallsOf("Template", "download_file_by_id_and_filename") # <<>>

\* Position of the first call with the given operation (0 when there is none).
FirstCall(op) ==
    IF \E i \in 1..Len(calls) : calls[i].op = op
    THEN CHOOSE i \in 1..Len(calls) :
            /\ calls[i].op = op
            /\ \A j \in 1..(i - 1) : calls[j].op # op
    ELSE 0

ReturnsControl(h) == pc = h /\ pc' \in (Handlers \cup {"done"}) \ {h}

\* handle() is straight-line code over blocking calls and the chain runs in
\* one thread, so a handler that was entered runs on until it hands control
\* on.  The step of h is enabled exactly when pc = h.
LiveSpec ==
    /\ Spec
    /\ WF_pc(ReturnsControl("Zenodo"))
    /\ WF_pc(ReturnsControl("Gitlab"))
    /\ WF_pc(ReturnsControl("Template"))

\* C29: every handle call on the chain wired by the container terminates,
\* returning a record or raising an error, after entering each handler at
\* most once and in the order Zenodo, GitLab, Template; per call there is at
\* most one embedded-schema download, one GitLab retrieval and one template
\* download.
C29_CallTerminates ==
    /\ [](/\ IsPrefix(entered, <<"Zenodo", "Gitlab", "Template">>)
          /\ Len(CallsOf("Zenodo", "download_file_by_id_and_filename")) <= 1
          /\ Len(CallsOf("Gitlab", "get_schema_inside_repository")) <= 1
          /\ Len(CallsOf("Template", "download_file_by_id_and_filename")) <= 1
          /\ pc = "done" => (IsReturn(result) \/ IsRaise(result)))
    /\ \A n \in 1..MaxCalls :
          (call_no = n /\ pc \in Handlers) ~> (call_no = n /\ pc = "done")

C29_Witness ==
    /\ pc = "done" /\ call_no = MaxCalls
    /\ entered = <<"Zenodo", "Gitlab", "Template">>
    /\ Len(CallsOf("Gitlab", "get_schema_inside_repository")) = 1
    /\ Len(CallsOf("Template", "download_file_by_id_and_filename")) = 1
    /\ IsReturn(result)

----------------------------------------------------------------------------
\* JSON documents as json.load returns them: dict, list, int, str, None.

JInt(n) == [t |-> "int", n |-> n]
JStr(c) == [t |-> "str", c |-> c]
JList(s) == [t |-> "list", s |-> s]
JDict(f) == [t |-> "dict", f |-> f]
JNone == [t |-> "None"]

\* A dict with one, two keys.
D1(k1, v1) == JDict([k \in {k1} |-> v1])
D2(k1, v1, k2, v2) == JDict([k \in {k1, k2} |-> IF k = k1 THEN v1 ELSE v2])

\* The template examples given to from_json.
Examples ==
    { D2("a", JInt(1), "b", D1("c", JStr("x"))),
      D2("a", JInt(1), "b", JList(<<JInt(1), JStr("x")>>)),
      D2("a", JStr("x"), "b", JList(<<D1("c", JInt(1))>>)),
      D2("a", JInt(1), "b", JList(<<>>)),
      D1("b", JList(<<JInt(1), D1("c", JInt(1))>>)) }

\* The data documents: any subset of the keys a, b, z; a is an int or a
\* str, b a nested dict (keys c, z), a list or an int, z an int.
Documents ==
    LET nested ==
            { JDict(f) : f \in UNION {
                { g \in [S -> {JInt(1), JStr("x"), JInt(9)}] :
                    /\ ("c" \in S => g["c"] \in {JInt(1), JStr("x")})
                    /\ ("z" \in S => g["z"] = JInt(9)) } :
                S \in SUBSET {"c", "z"} } }
        lists ==
            { JList(<<>>), JList(<<JInt(1)>>), JList(<<JInt(1), JStr("x")>>),
              JList(<<JStr("x"), JInt(1)>>), JList(<<D1("c", JInt(1))>>),
              JList(<<D2("c", JInt(1), "z", JInt(9))>>),
              JList(<<JInt(1), D1("c", JInt(1))>>) }
        ValuesAt(k) ==
            CASE k = "a" -> {JInt(2), JStr("x")}
              [] k = "b" -> nested \cup lists \cup {JInt(1)}
              [] k = "z" -> {JInt(9)}
        keys == {"a", "b", "z"}
    IN  { JDict(f) : f \in UNION {
            { g \in [S -> UNION {ValuesAt(k) : k \in keys}] :
                \A k \in S : g[k] \in ValuesAt(k) } :
            S \in SUBSET keys } }

----------------------------------------------------------------------------
\* DynamicConversor (conversors/dynamic_conversor.py): pydantic models made
\* from a template example.

\* A type that can stand in a Union: a primitive Python type or a model class.
PrimType(tag) == [kind |-> "prim", tag |-> tag, fields |-> <<>>]
ModelType(fields) == [kind |-> "model", tag |-> "BaseModel", fields |-> fields]

\* A field annotated Union[items] or List[Union[items]].
UnionOf(items) == [list |-> FALSE, items |-> items, required |-> TRUE]
ListOf(items) == [list |-> TRUE, items |-> items, required |-> TRUE]

\* Variant: the field definition (T, ...), a required field.
RequiredNoDefault(ty) == [ty EXCEPT !.required = TRUE]

\* The field definition (Optional[T], None).
OptionalDefaultNone(ty) == [ty EXCEPT !.required = FALSE]

\* DynamicConversor._infer_types
RECURSIVE InferTypes(_)
InferTypes(val) ==
    CASE val.t = "list" ->
            {"list"} \cup UNION {InferTypes(val.s[i]) : i \in DOMAIN val.s}
      [] val.t = "dict" ->
            {"dict"} \cup UNION {InferTypes(val.f[k]) : k \in DOMAIN val.f}
      [] OTHER -> {val.t}

\* DynamicConversor.from_json._create_model
RECURSIVE CreateModel(_)
CreateModel(data) ==
    IF data.t # "dict"
    THEN ModelType([k \in {"value"} |->
            OptionalDefaultNone(UnionOf({PrimType(ty) : ty \in InferTypes(data)}))])
    ELSE ModelType([key \in DOMAIN data.f |->
            LET value == data.f[key]
            IN  IF value.t = "dict"
                THEN OptionalDefaultNone(UnionOf({CreateModel(value), PrimType("None")}))
                ELSE IF value.t = "list" /\ value.s # <<>>
                THEN OptionalDefaultNone(ListOf(UNION {
                        IF value.s[i].t = "dict"
                        THEN {CreateModel(value.s[i])}
                        ELSE {PrimType(ty) : ty \in InferTypes(value.s[i])} :
                        i \in DOMAIN value.s}))
                ELSE OptionalDefaultNone(
                        UnionOf({PrimType(ty) : ty \in InferTypes(value)}))])

\* DynamicConversor.from_json
FromJson(example) == [main |-> CreateModel(example)]

\* pydantic validation of a value against a type / a field.  A model class
\* made by create_model ignores the keys of the input that are not fields.
RECURSIVE Matches(_, _), FieldMatches(_, _)
Matches(atom, value) ==
    IF atom.kind = "prim"
    THEN value.t = atom.tag
    ELSE /\ value.t = "dict"
         /\ \A k \in DOMAIN atom.fields :
               IF k \in DOMAIN value.f
               THEN FieldMatches(atom.fields[k], value.f[k])
               ELSE ~atom.fields[k].required

FieldMatches(field, value) ==
    \/ (~field.required /\ value.t = "None")
    \/ IF field.list
       THEN /\ value.t = "list"
            /\ \A i \in DOMAIN value.s :
                  \E atom \in field.items : Matches(atom, value.s[i])
       ELSE \E atom \in field.items : Matches(atom, value)

\* The validated instance: one attribute per field of the model, None for a
\* field the input does not have.
RECURSIVE Build(_, _), BuildField(_, _)
Build(atom, value) ==
    IF atom.kind = "prim"
    THEN value
    ELSE [t |-> "model",
          f |-> [k \in DOMAIN atom.fields |->
                    IF k \in DOMAIN value.f
                    THEN BuildField(atom.fields[k], value.f[k])
                    ELSE JNone]]

BuildField(field, value) ==
    IF value.t = "None"
    THEN JNone
    ELSE IF field.list
    THEN JList([i \in DOMAIN value.s |->
                  Build(CHOOSE atom \in field.items : Matches(atom, value.s[i]),
                        value.s[i])])
    ELSE Build(CHOOSE atom \in field.items : Matches(atom, value), value)

\* DynamicConversor.create_instance: model(**loaded_data)
CreateInstance(model, data) ==
    IF Matches(model, data)
    THEN Return(Build(model, data))
    ELSE Raise("ValidationError", "validation error for ExperimentData")

----------------------------------------------------------------------------
\* The conversor operations the handlers and the service call
\* (ConversorInterface), with the files they open and what they print.

\* A JSON Schema document: the keys it declares, the keys it requires and
\* whether it rejects undeclared keys.  {} is the empty schema.
SchemaDoc(properties, required, closed) ==
    [t |-> "schema", empty |-> FALSE, properties |-> properties,
     required |-> required, closed |-> closed]

EmptySchemaDoc ==
    [t |-> "schema", empty |-> TRUE, properties |-> {}, required |-> {},
     closed |-> FALSE]

Schemas ==
    { SchemaDoc({"a", "b"}, {"a"}, FALSE), SchemaDoc({"a", "b"}, {}, TRUE),
      EmptySchemaDoc }

\* `not x` for a schema argument and for a path argument
Falsy(x) == x.t = "None" \/ (x.t = "schema" /\ x.empty)
NoPath(path) == path \in {None, ""}

DataFile == "data.json"
SchemaFile == "schema.json"
PathArgs == {None, "", DataFile, "missing.json"}
SchemaPathArgs == {None, SchemaFile, "missing.json"}

\* The local files: the data document and the schema document.
LocalFiles(doc, schema) ==
    [p \in {DataFile, SchemaFile} |-> IF p = DataFile THEN doc ELSE schema]

\* Variant: an array is typed by its first element only.
RECURSIVE ShapeOf_FirstItem(_)
ShapeOf_FirstItem(doc) ==
    CASE doc.t = "dict" ->
            [type |-> "object",
             props |-> [k \in DOMAIN doc.f |-> ShapeOf_FirstItem(doc.f[k])]]
      [] doc.t = "list" ->
            [type |-> "array",
             items |-> IF doc.s = <<>> THEN {}
                       ELSE {ShapeOf_FirstItem(doc.s[1])}]
      [] OTHER -> [type |-> doc.t]

\* The schema node derived from a value by example: an object node is closed
\* and has a property for every observed key, typed by the observed value;
\* an array node admits the types observed among its elements; a scalar node
\* has the JSON type of the value.
RECURSIVE ShapeOf(_)
ShapeOf(doc) ==
    CASE doc.t = "dict" ->
            [type |-> "object",
             props |-> [k \in DOMAIN doc.f |-> ShapeOf(doc.f[k])]]
      [] doc.t = "list" ->
            [type |-> "array",
             items |-> {ShapeOf(doc.s[i]) : i \in DOMAIN doc.s}]
      [] OTHER -> [type |-> doc.t]

\* Validation of a value against a schema node: no property is required.
RECURSIVE Conforms(_, _)
Conforms(shape, doc) ==
    CASE shape.type = "object" ->
            /\ doc.t = "dict"
            /\ DOMAIN doc.f \subseteq DOMAIN shape.props
            /\ \A k \in DOMAIN doc.f : Conforms(shape.props[k], doc.f[k])
      [] shape.type = "array" ->
            /\ doc.t = "list"
            /\ shape.items # {}
                  => \A i \in DOMAIN doc.s :
                        \E item \in shape.items : Conforms(item, doc.s[i])
      [] OTHER -> doc.t = shape.type

\* Structural validation of a document against a schema.
Validates(schema, doc) ==
    /\ doc.t = "dict"
    /\ schema.required \subseteq DOMAIN doc.f
    /\ schema.closed => DOMAIN doc.f \subseteq schema.properties
    /\ "shape" \in DOMAIN schema => Conforms(schema.shape, doc)

\* Schema by example: every observed key declared and typed at every level of
\* nesting, none required, every object node closed.
InferSchema(doc) ==
    [t |-> "schema", empty |-> FALSE, properties |-> DOMAIN doc.f,
     required |-> {}, closed |-> TRUE, shape |-> ShapeOf(doc)]

\* Conversion of a document into a record: an object becomes a node with one
\* member per key, an array a sequence of converted elements, a scalar
\* itself.
RECURSIVE ToRecord(_)
ToRecord(doc) ==
    CASE doc.t = "dict" ->
            [t |-> "namespace", f |-> [k \in DOMAIN doc.f |-> ToRecord(doc.f[k])]]
      [] doc.t = "list" ->
            JList([i \in DOMAIN doc.s |-> ToRecord(doc.s[i])])
      [] OTHER -> doc

\* What an operation did: its outcome, the paths it opened, what it printed.
Did(out, paths, prints) == [out |-> out, opened |-> paths, printed |-> prints]

\* Variant: the data file is opened before the arguments are checked.
GenerateInstanceFromSchemaAndDataIO_OpenFirst(schema, path, files) ==
    IF path \notin DOMAIN files
    THEN Did(Raise("FileNotFoundError", "No such file or directory"),
             <<path>>, <<>>)
    ELSE IF Falsy(schema) \/ NoPath(path)
    THEN Did(Raise("ValueError", "Schema and data path must be provided"),
             <<path>>, <<>>)
    ELSE IF ~Validates(schema, files[path])
    THEN Did(Raise("StructureException", "Data structure does not match schema"),
             <<path>>, <<"print_schema">>)
    ELSE Did(Return(ToRecord(files[path])), <<path>>, <<"print_schema">>)

\* ConversorInterface.generate_instance_from_schema_and_data
GenerateInstanceFromSchemaAndDataIO(schema, path, files) ==
    IF Falsy(schema) \/ NoPath(path)
    THEN Did(Raise("ValueError", "Schema and data path must be provided"),
             <<>>, <<>>)
    ELSE IF path \notin DOMAIN files
    THEN Did(Raise("FileNotFoundError", "No such file or directory"),
             <<path>>, <<>>)
    ELSE IF ~Validates(schema, files[path])
    THEN Did(Raise("StructureException", "Data structure does not match schema"),
             <<path>>, <<"print_schema">>)
    ELSE Did(Return(ToRecord(files[path])), <<path>>, <<"print_schema">>)

\* The validating branch of generate_instance_from_local_path: the schema is
\* read from schema_path, or derived from the data file when there is none.
ValidatedLoad(path, schema_path, files) ==
    IF schema_path # None /\ schema_path \notin DOMAIN files
    THEN Did(Raise("FileNotFoundError", "No such file or directory"),
             <<schema_path>>, <<>>)
    ELSE IF schema_path = None /\ path \notin DOMAIN files
    THEN Did(Raise("FileNotFoundError", "No such file or directory"),
             <<path>>, <<>>)
    ELSE LET schema == IF schema_path # None
                       THEN files[schema_path]
                       ELSE InferSchema(files[path])
             source == IF schema_path # None THEN schema_path ELSE path
             r == GenerateInstanceFromSchemaAndDataIO(schema, path, files)
         IN  Did(r.out, <<source>> \o r.opened,
                 IF IsReturn(r.out)
                 THEN Append(r.printed, "print_json_data")
                 ELSE r.printed)

\* Variant: the schema is read and checked whatever validate says.
GenerateInstanceFromLocalPath_AlwaysValidate(path, schema_path, validate, files) ==
    IF NoPath(path)
    THEN Did(Raise("ValueError", "Data path must be provided"), <<>>, <<>>)
    ELSE ValidatedLoad(path, schema_path, files)

\* ConversorInterface.generate_instance_from_local_path
GenerateInstanceFromLocalPath(path, schema_path, validate, files) ==
    IF NoPath(path)
    THEN Did(Raise("ValueError", "Data path must be provided"), <<>>, <<>>)
    ELSE IF ~validate
    THEN IF path \notin DOMAIN files
         THEN Did(Raise("FileNotFoundError", "No such file or directory"),
                  <<path>>, <<>>)
         ELSE Did(Return(ToRecord(files[path])), <<path>>, <<"print_json_data">>)
    ELSE ValidatedLoad(path, schema_path, files)

----------------------------------------------------------------------------
\* The conversor called on a template example, a data document and a schema
\* file.

\* The handler chain at rest.
ChainIdle ==
    /\ template = [rec_id |-> 0, jsonschema |-> None, jsontemplate |-> None]
    /\ data_path = ""
    /\ next_handler = ContainerWiring
    /\ zenodo_record = CHOOSE r \in ZenodoRecords : TRUE
    /\ gitlab_project = CHOOSE p \in GitlabProjects : TRUE
    /\ pc = "idle"
    /\ entered = <<>>
    /\ calls = <<>>
    /\ raised = <<>>
    /\ result = NoOutcome
    /\ call_no = 0
    /\ prev = [result |-> NoOutcome, calls |-> <<>>, entered |-> <<>>]

ConvInit ==
    /\ ChainIdle
    /\ SvcIdle
    /\ QbIdle
    /\ RestIdle
    /\ json_template \in Examples
    /\ document \in Documents
    /\ schema_file \in Schemas
    /\ conv_call = NoCall
    /\ conv_result = NoOutcome
    /\ opened = <<>>
    /\ printed = <<>>

ConvCall(op, schema, path, schema_path, validate) ==
    [op |-> op, schema |-> schema, data_path |-> path,
     schema_path |-> schema_path, validate |-> validate]

ConvDone(call, r) ==
    /\ conv_call' = call
    /\ conv_result' = r.out
    /\ opened' = r.opened
    /\ printed' = r.printed
    /\ UNCHANGED <<json_template, document, schema_file>>
    /\ UNCHANGED <<chain_vars, svc_vars, qb_vars, rest_vars>>

\* create_instance(from_json(json_template)["main"], document)
CreateInstanceCall ==
    ConvDone(ConvCall("create_instance", JNone, None, None, TRUE),
             Did(CreateInstance(FromJson(json_template).main, document),
                 <<>>, <<>>))

\* generate_instance_from_schema_and_data(schema, data_path)
GenerateInstanceCall ==
    \E schema \in {JNone, schema_file, InferSchema(document)} :
    \E path \in PathArgs :
        ConvDone(ConvCall("generate_instance_from_schema_and_data", schema,
                          path, None, TRUE),
                 GenerateInstanceFromSchemaAndDataIO(
                     schema, path, LocalFiles(document, schema_file)))

\* generate_instance_from_local_path(data_path, schema_path, validate)
LocalPathCall ==
    \E path \in PathArgs : \E schema_path \in SchemaPathArgs :
    \E validate \in BOOLEAN :
        ConvDone(ConvCall("generate_instance_from_local_path", JNone, path,
                          schema_path, validate),
                 GenerateInstanceFromLocalPath(
                     path, schema_path, validate,
                     LocalFiles(document, schema_file)))

ConvNext == CreateInstanceCall \/ GenerateInstanceCall \/ LocalPathCall

ConvSpec == ConvInit /\ [][ConvNext]_vars

----------------------------------------------------------------------------
\* Properties of the conversor.

\* The document has, at the top level or inside a nested object, a key that
\* the example does not have at that position.
RECURSIVE HasUnknownKey(_, _)
HasUnknownKey(example, doc) ==
    CASE example.t = "dict" /\ doc.t = "dict" ->
            \E k \in DOMAIN doc.f :
                \/ k \notin DOMAIN example.f
                \/ (k \in DOMAIN example.f /\ HasUnknownKey(example.f[k], doc.f[k]))
      [] example.t = "list" /\ doc.t = "list" ->
            \E i \in DOMAIN doc.s :
                /\ doc.s[i].t = "dict"
                /\ \E j \in DOMAIN example.s : example.s[j].t = "dict"
                /\ \A j \in DOMAIN example.s :
                      example.s[j].t = "dict"
                          => HasUnknownKey(example.s[j], doc.s[i])
      [] OTHER -> FALSE

\* The document is the example with some keys left out, at any level; the
\* values that remain have the JSON type the example has there.
RECURSIVE OmissionOf(_, _)
OmissionOf(example, doc) ==
    /\ doc.t = example.t
    /\ CASE doc.t = "dict" ->
               /\ DOMAIN doc.f \subseteq DOMAIN example.f
               /\ \A k \in DOMAIN doc.f : OmissionOf(example.f[k], doc.f[k])
         [] doc.t = "list" ->
               \A i \in DOMAIN doc.s :
                   \E j \in DOMAIN example.s : OmissionOf(example.s[j], doc.s[i])
         [] OTHER -> TRUE

\* Reading any path of the document on the record gives the document's
\* value (a node of the record is a model instance, a namespace or, under a
\* field typed list or dict, the dict itself).
RECURSIVE Retains(_, _)
Retains(doc, rec) ==
    CASE doc.t = "dict" ->
            /\ rec.t \in {"model", "namespace", "dict"}
            /\ \A k \in DOMAIN doc.f :
                   k \in DOMAIN rec.f /\ Retains(doc.f[k], rec.f[k])
      [] doc.t = "list" ->
            /\ rec.t = "list"
            /\ Len(rec.s) = Len(doc.s)
            /\ \A i \in DOMAIN doc.s : Retains(doc.s[i], rec.s[i])
      [] OTHER -> rec = doc

\* C11: validating against the model made from a template example rejects
\* every data document that has, at the top level or inside a nested object,
\* a key the example does not have at that position.
C11_UnknownKeyRejected ==
    (conv_call.op = "create_instance" /\ HasUnknownKey(json_template, document))
    => IsRaise(conv_result)

\* C12: validating against the model made from a template example accepts
\* every data document obtained from the example by leaving out keys at any
\* level, the remaining values keeping the example's JSON types.
C12_OmissionAccepted ==
    (conv_call.op = "create_instance" /\ OmissionOf(json_template, document))
    => IsReturn(conv_result)

C12_Witness ==
    /\ conv_call.op = "create_instance"
    /\ OmissionOf(json_template, document)
    /\ "a" \in DOMAIN json_template.f /\ "a" \notin DOMAIN document.f
    /\ "b" \in DOMAIN document.f
    /\ json_template.f["b"].t = "dict" /\ DOMAIN document.f["b"].f = {}
    /\ IsReturn(conv_result)

\* C13: generate_instance_from_schema_and_data called with an empty or None
\* schema, or an empty or None data path, raises ValueError('Schema and data
\* path must be provided') and has opened no file.
C13_PreconditionBeforeIO ==
    (/\ conv_call.op = "generate_instance_from_schema_and_data"
     /\ (Falsy(conv_call.schema) \/ NoPath(conv_call.data_path)))
    => /\ conv_result = Raise("ValueError", "Schema and data path must be provided")
       /\ opened = <<>>

C13_Witness ==
    /\ conv_call.op = "generate_instance_from_schema_and_data"
    /\ conv_call.schema = EmptySchemaDoc
    /\ conv_call.data_path = DataFile
    /\ IsRaise(conv_result) /\ conv_result.val.type = "ValueError"

\* C14: a record made from a JSON document loses and reorders nothing: every
\* path of keys and array indices of the document reads, on the record, the
\* document's value; arrays keep length and order; key names are kept.
C14_ConversionLosesNothing ==
    (conv_call.op # None /\ IsReturn(conv_result))
    => Retains(document, conv_result.val)

\* C15: generate_instance_from_local_path with validate=False opens no schema
\* file, prints no schema, never raises StructureException and returns the
\* direct conversion of the data document, also when schema_path is given.
C15_NoValidateSkipsSchema ==
    (conv_call.op = "generate_instance_from_local_path" /\ ~conv_call.validate)
    => /\ \A i \in DOMAIN opened : opened[i] = conv_call.data_path
       /\ \A i \in DOMAIN printed : printed[i] # "print_schema"
       /\ ~(IsRaise(conv_result) /\ conv_result.val.type = "StructureException")
       /\ conv_call.data_path = DataFile
              => conv_result = Return(ToRecord(document))

C15_Witness ==
    /\ conv_call.op = "generate_instance_from_local_path"
    /\ ~conv_call.validate
    /\ conv_call.schema_path = SchemaFile
    /\ ~schema_file.empty /\ ~Validates(schema_file, document)
    /\ conv_result = Return(ToRecord(document))

\* C26: a schema produced by generate_json_schema from a document accepts
\* that document: generate_instance_from_schema_and_data with the schema
\* derived from the data document does not raise StructureException, and so
\* generate_instance_from_local_path with validate=True and no schema path
\* never fails validation.
C26_InferredSchemaAcceptsItsDocument ==
    /\ (conv_call.op = "generate_instance_from_schema_and_data"
          /\ conv_call.schema = InferSchema(document)
          /\ conv_call.data_path = DataFile)
       => (IsReturn(conv_result) /\ conv_result.val = ToRecord(document))
    /\ (conv_call.op = "generate_instance_from_local_path"
          /\ conv_call.validate /\ conv_call.schema_path = None
          /\ conv_call.data_path = DataFile)
       => (IsReturn(conv_result) /\ conv_result.val = ToRecord(document))

C26_Witness ==
    /\ conv_call.op = "generate_instance_from_local_path"
    /\ conv_call.validate /\ conv_call.schema_path = None
    /\ conv_call.data_path = DataFile
    /\ document = D2("b", JList(<<JInt(1), D1("c", JInt(1))>>), "z", JInt(9))
    /\ IsReturn(conv_result)
    /\ opened = <<DataFile, DataFile>>

----------------------------------------------------------------------------
\* SourceZenodoRequest.get_correct_template_by_date
\* (source/source_zenodo_requests.py) and the Template model it builds.

\* Creation times are 1..MaxDate; at most MaxVersions template versions.
MaxDate == 3
MaxVersions == 3

Dates == 1..MaxDate

\* The date argument: absent (None) or a creation time.
NoDate == [given |-> FALSE, at |-> 1]
DateArgs == {NoDate} \cup {[given |-> TRUE, at |-> d] : d \in Dates}

\* One hit of the versions listing, as Zenodo serves it.
VersionHit(d) ==
    [id |-> d, created |-> d, updated |-> d,
     metadata |-> [title |-> "HFLAV template", version |-> d]]

\* What the two GET requests find: whether the concept record has a
\* links.versions entry, and the hits of the versions listing in the order
\* Zenodo lists them, with distinct creation times.
VersionListings ==
    {[versions_link |-> FALSE, hits |-> <<>>]} \cup
    {[versions_link |-> TRUE, hits |-> [i \in DOMAIN ds |-> VersionHit(ds[i])]] :
        ds \in {s \in UNION {[1..n -> Dates] : n \in 0..MaxVersions} :
                  \A i, j \in DOMAIN s : i # j => s[i] # s[j]}}

\* Template(**values): the 'before' validator rebuilds the fields from the
\* keys id, metadata, created, updated of the input; rec_id, title and
\* version are required.
TemplateModel(values) ==
    IF "id" \notin DOMAIN values \/ "metadata" \notin DOMAIN values
    THEN Raise("ValidationError", "validation errors for Template")
    ELSE Return([rec_id |-> values.id, title |-> values.metadata.title,
                 created |-> values.created, updated |-> values.updated,
                 version |-> values.metadata.version])

\* SourceZenodoRequest.get_correct_template_by_date
GetCorrectTemplateByDate(listing, date) ==
    IF ~listing.versions_link
    THEN Raise("ValueError", "No versions link found for record")
    ELSE LET built == [i \in DOMAIN listing.hits |->
                          LET version == listing.hits[i]
                          IN  TemplateModel([title |-> version.metadata.title,
                                             created |-> version.created,
                                             updated |-> version.updated,
                                             version |-> version.metadata.version,
                                             jsons |-> <<>>])]
             failed == {i \in DOMAIN built : IsRaise(built[i])}
         IN  IF failed # {}
             THEN built[CHOOSE i \in failed : \A j \in failed : i <= j]
             ELSE Return([t |-> "list",
                          s |-> [i \in DOMAIN built |-> built[i].val]])

----------------------------------------------------------------------------
\* Service (services/service.py) over a source and a handler chain that
\* behave as SourceInterface documents them.

RecordId == 123
DataFileName == "data.json"
DestPaths == {None, "/tmp/download"}

SourceExceptions ==
    { Raise("DataAccessException", "Connection failed"),
      Raise("DataNotFoundException", "No data found"),
      Raise("ValueError", "No id or filename given"),
      Raise("Exception", "Unexpected error") }

\* models.Record / models.Template as load_data_file reads them
RecordModel(d) == [id |-> RecordId, title |-> "record", created |-> d]
FoundTemplate == [rec_id |-> 42, title |-> "template", version |-> "1.0"]

\* What each method of the source does when the service calls it.
Sources ==
    [t : {"source"},
     get_records_by_name :
        {Return(<<>>), Return(<<RecordModel(1), RecordModel(2)>>)}
            \cup SourceExceptions,
     get_record :
        {Return(RecordModel(d)) : d \in Dates}
            \cup {Raise("DataNotFoundException", "No data found")},
     get_correct_template_by_date :
        {Return(FoundTemplate), Raise("DataAccessException", "Connection failed")},
     download_file_by_id_and_filename :
        {Return("/tmp/download/data.json"),
         Raise("ValueError", "No id or filename given")}]

\* What handler_schema_chain.handle does.
ChainOutcomes ==
    { Return([kind |-> "namespace", val |-> [type |-> None, msg |-> None]]),
      Raise("StructureException", "Data structure does not match schema"),
      Raise("Exception", "No handler available for this template and data path") }

\* A call the service makes on a collaborator.
SCall(op, id, date, filename, path) ==
    [op |-> op, id |-> id, date |-> date, filename |-> filename, path |-> path]

SvcCall(op, record_id, filename, dest_path, date) ==
    [op |-> op, record_id |-> record_id, filename |-> filename,
     dest_path |-> dest_path, date |-> date]

SvcInit ==
    /\ ChainIdle
    /\ ConvIdle
    /\ QbIdle
    /\ RestIdle
    /\ svc_source \in Sources
    /\ handler_chain \in ChainOutcomes
    /\ zenodo_versions \in VersionListings
    /\ svc_call = NoCall
    /\ svc_pc = "idle"
    /\ svc_locals = <<>>
    /\ svc_calls = <<>>
    /\ svc_result = NoOutcome

SvcWorldUnchanged ==
    /\ UNCHANGED <<svc_source, handler_chain, zenodo_versions>>
    /\ UNCHANGED <<chain_vars, conv_vars, qb_vars, rest_vars>>

\* Variant: except Exception instead of except DataAccessException.
SearchRecordsByName_CatchAll(found) ==
    IF IsRaise(found) THEN Return(<<>>) ELSE found

\* Service.search_records_by_name, given what get_records_by_name did
SearchRecordsByName(found) ==
    IF IsRaise(found) /\ found.val.type = "DataAccessException"
    THEN Return(<<>>)
    ELSE found

SearchRecordsByNameCall ==
    /\ svc_pc \in {"idle", "done"}
    /\ svc_call' = SvcCall("search_records_by_name", RecordId, "", None, NoDate)
    /\ svc_calls' = <<SCall("get_records_by_name", RecordId, NoDate, "", "query")>>
    /\ svc_result' = SearchRecordsByName(svc_source.get_records_by_name)
    /\ svc_locals' = <<>>
    /\ svc_pc' = "done"
    /\ SvcWorldUnchanged

\* source.get_correct_template_by_date(date) on SourceZenodoRequest
GetCorrectTemplateByDateCall ==
    /\ svc_pc \in {"idle", "done"}
    /\ \E date \in DateArgs :
          /\ svc_call' = SvcCall("get_correct_template_by_date", RecordId, "",
                                 None, date)
          /\ svc_result' = GetCorrectTemplateByDate(zenodo_versions, date)
    /\ svc_calls' = <<>>
    /\ svc_locals' = <<>>
    /\ svc_pc' = "done"
    /\ SvcWorldUnchanged

\* Service.load_data_file is entered.
LoadDataFileCall ==
    /\ svc_pc \in {"idle", "done"}
    /\ \E dest_path \in DestPaths :
          svc_call' = SvcCall("load_data_file", RecordId, DataFileName,
                              dest_path, NoDate)
    /\ svc_calls' = <<>>
    /\ svc_locals' = <<>>
    /\ svc_result' = NoOutcome
    /\ svc_pc' = "get_record"
    /\ SvcWorldUnchanged

\* One statement `name = collaborator.method(...)` of load_data_file: the
\* call is made; an exception ends load_data_file, a value is bound to name.
Assign(name, call, out, next) ==
    /\ svc_calls' = Append(svc_calls, call)
    /\ IF IsRaise(out)
       THEN /\ svc_pc' = "done"
            /\ svc_result' = out
            /\ svc_locals' = svc_locals
       ELSE /\ svc_pc' = next
            /\ svc_result' = svc_result
            /\ svc_locals' = (name :> out.val) @@ svc_locals
    /\ svc_call' = svc_call
    /\ SvcWorldUnchanged

\* record = self._source.get_record(recid=record_id)
GetRecordStep ==
    /\ svc_pc = "get_record"
    /\ Assign("record",
              SCall("get_record", svc_call.record_id, NoDate, "", ""),
              svc_source.get_record, "get_template")

\* Variant: an exception of get_correct_template_by_date is swallowed and
\* load_data_file goes on without a template.
GetTemplateStep_Swallow ==
    /\ svc_pc = "get_template"
    /\ svc_calls' = Append(svc_calls,
          SCall("get_correct_template_by_date", 0,
                [given |-> TRUE, at |-> svc_locals["record"].created], "", ""))
    /\ svc_pc' = "download"
    /\ svc_result' = svc_result
    /\ svc_locals' = ("template" :> FoundTemplate) @@ svc_locals
    /\ svc_call' = svc_call
    /\ SvcWorldUnchanged

\* template = self._source.get_correct_template_by_date(date=record.created)
GetTemplateStep ==
    /\ svc_pc = "get_template"
    /\ Assign("template",
              SCall("get_correct_template_by_date", 0,
                    [given |-> TRUE, at |-> svc_locals["record"].created], "", ""),
              svc_source.get_correct_template_by_date, "download")

\* file_path = self._source.download_file_by_id_and_filename(...)
DownloadStep ==
    /\ svc_pc = "download"
    /\ Assign("file_path",
              SCall("download_file_by_id_and_filename", svc_call.record_id,
                    NoDate, svc_call.filename, svc_call.dest_path),
              svc_source.download_file_by_id_and_filename, "handle")

\* return self._handler_schema_chain.handle(template, file_path)
HandleStep ==
    /\ svc_pc = "handle"
    /\ svc_calls' = Append(svc_calls,
          SCall("handle", svc_locals["template"].rec_id, NoDate, "",
                svc_locals["file_path"]))
    /\ svc_result' = handler_chain
    /\ svc_pc' = "done"
    /\ UNCHANGED <<svc_call, svc_locals>>
    /\ SvcWorldUnchanged

SvcNext ==
    \/ SearchRecordsByNameCall
    \/ GetCorrectTemplateByDateCall
    \/ LoadDataFileCall
    \/ GetRecordStep
    \/ GetTemplateStep
    \/ DownloadStep
    \/ HandleStep

SvcSpec == SvcInit /\ [][SvcNext]_vars

----------------------------------------------------------------------------
\* Properties of the source and the service.

\* The versions created on or before the date (all of them without a date).
Eligible(listing, date) ==
    {i \in DOMAIN listing.hits :
        ~date.given \/ listing.hits[i].created <= date.at}

\* C16: get_correct_template_by_date(date) returns the one template whose
\* creation time is the latest not after date (the globally latest without a
\* date, whatever the listing order), and fails with a not-found error when
\* no template was created on or before date.
C16_LatestTemplateNotAfterDate ==
    (svc_call.op = "get_correct_template_by_date"
        /\ zenodo_versions.versions_link)
    => LET hits == zenodo_versions.hits
           among == Eligible(zenodo_versions, svc_call.date)
       IN  IF among = {}
           THEN /\ IsRaise(svc_result)
                /\ svc_result.val.type \in {"DataNotFoundException", "ValueError"}
           ELSE /\ IsReturn(svc_result)
                /\ \E i \in among :
                      /\ \A j \in among : hits[j].created <= hits[i].created
                      /\ svc_result.val = TemplateModel(hits[i]).val

\* The four collaborator outcomes of load_data_file, in program order, and
\* the first of them that raises (the last one when none does).
LoadSteps ==
    <<svc_source.get_record, svc_source.get_correct_template_by_date,
      svc_source.download_file_by_id_and_filename, handler_chain>>

LastStep ==
    LET failed == {i \in 1..4 : IsRaise(LoadSteps[i])}
    IN  IF failed = {} THEN 4 ELSE CHOOSE i \in failed : \A j \in failed : i <= j

ExpectedCall(i) ==
    CASE i = 1 -> SCall("get_record", svc_call.record_id, NoDate, "", "")
      [] i = 2 -> SCall("get_correct_template_by_date", 0,
                        [given |-> TRUE, at |-> svc_source.get_record.val.created],
                        "", "")
      [] i = 3 -> SCall("download_file_by_id_and_filename", svc_call.record_id,
                        NoDate, svc_call.filename, svc_call.dest_path)
      [] i = 4 -> SCall("handle",
                        svc_source.get_correct_template_by_date.val.rec_id,
                        NoDate, "",
                        svc_source.download_file_by_id_and_filename.val)

\* C17: load_data_file calls get_record(record_id),
\* get_correct_template_by_date(date=record.created),
\* download_file_by_id_and_filename(record_id, filename, dest_path) and
\* chain.handle(template, downloaded_path) in this order, each once; when a
\* step raises no later step is made and that error is the outcome.
C17_LoadDataFileOrder ==
    (svc_call.op = "load_data_file")
    => /\ Len(svc_calls) <= LastStep
       /\ \A i \in DOMAIN svc_calls : svc_calls[i] = ExpectedCall(i)
       /\ svc_pc = "done"
              => /\ Len(svc_calls) = LastStep
                 /\ svc_result = LoadSteps[LastStep]

C17_Witness ==
    /\ svc_call.op = "load_data_file" /\ svc_pc = "done"
    /\ svc_call.dest_path # None
    /\ Len(svc_calls) = 4 /\ svc_calls[4].op = "handle"
    /\ IsReturn(svc_result)

\* C18: search_records_by_name returns an empty list when the source raises
\* DataAccessException, the source's list unchanged when the source
\* succeeds, and lets every other exception of the source through.
C18_SearchRecordsByName ==
    (svc_call.op = "search_records_by_name")
    => LET found == svc_source.get_records_by_name
       IN  /\ (IsRaise(found) /\ found.val.type = "DataAccessException")
                  => svc_result = Return(<<>>)
           /\ IsReturn(found) => svc_result = found
           /\ (IsRaise(found) /\ found.val.type # "DataAccessException")
                  => svc_result = found

C18_Witness ==
    /\ svc_call.op = "search_records_by_name"
    /\ IsRaise(svc_source.get_records_by_name)
    /\ svc_source.get_records_by_name.val.type = "DataAccessException"
    /\ svc_result = Return(<<>>)

----------------------------------------------------------------------------
\* Filters and QueryBuilder (filters/search_filters.py), ZenodoQuery
\* (filters/zenodo_query.py).  A query string is the sequence of the pieces
\* the f-strings and joins put together; a sort string is a sequence of
\* characters.

\* Number of builder methods called on one builder before build().
MaxOps == 4

\* str.join(sep, items)
RECURSIVE Join(_, _)
Join(sep, items) ==
    IF items = <<>> THEN <<>>
    ELSE IF Len(items) = 1 THEN items[1]
    ELSE items[1] \o sep \o Join(sep, Tail(items))

\* Terminal filters and the query string each one builds.
Terminal(kind, text) == [kind |-> kind, q |-> <<text>>, filters |-> <<>>]
TextFilter == Terminal("TextFilter", "title:\"HFLAV\"")
NumericFilter == Terminal("NumericFilter", "version>=2")
DateRangeFilter == Terminal("DateRangeFilter", "created:[2022-01-01T00:00:00 TO 2025-12-31T00:00:00]")
ExistenceFilter == Terminal("ExistenceFilter", "_exists_:doi")

\* AndFilter(*filters), OrFilter(*filters), NotFilter(*filters)
Combinators == {"AndFilter", "OrFilter", "NotFilter"}
Combined(combinator, filters) == [kind |-> combinator, q |-> <<>>, filters |-> filters]

\* No filter (None).
NoFilter == [kind |-> None, q |-> <<>>, filters |-> <<>>]

\* Filter.build_query
RECURSIVE BuildQuery(_)
BuildQuery(filter) ==
    CASE filter.kind = "AndFilter" ->
            Join(<<" AND ">>, [i \in DOMAIN filter.filters |->
                    <<"(">> \o BuildQuery(filter.filters[i]) \o <<")">>])
      [] filter.kind = "OrFilter" ->
            Join(<<" OR ">>, [i \in DOMAIN filter.filters |->
                    <<"(">> \o BuildQuery(filter.filters[i]) \o <<")">>])
      [] filter.kind = "NotFilter" ->
            Join(<<" AND ">>, [i \in DOMAIN filter.filters |->
                    <<"NOT (">> \o BuildQuery(filter.filters[i]) \o <<")">>])
      [] OTHER -> filter.q

\* SortOptions values, the direction prefix and the fallback sort.
MostRecent == <<"m", "o", "s", "t", "r", "e", "c", "e", "n", "t">>
BestMatch == <<"b", "e", "s", "t", "m", "a", "t", "c", "h">>
Newest == <<"n", "e", "w", "e", "s", "t">>
SortOptions == {MostRecent, BestMatch}

\* A Python str value, and the items a loop over it yields (its characters).
Str(chars) == [t |-> "str", s |-> chars]
Items(orders) ==
    IF orders.t = "str"
    THEN [i \in DOMAIN orders.s |-> <<orders.s[i]>>]
    ELSE orders.s

\* ZenodoQuery.__init__(filter, orders, size, page)
ZenodoQuery(filter, orders, size, page) ==
    [t |-> "ZenodoQuery", filter |-> filter,
     orders |-> IF orders.s = <<>> THEN [t |-> "list", s |-> <<>>] ELSE orders,
     size |-> size, page |-> page]

\* ZenodoQuery.build_query_string
BuildQueryString(q) ==
    IF q.filter.kind # None THEN BuildQuery(q.filter) ELSE <<>>

\* ZenodoQuery.build_params
BuildParams(q) ==
    LET base == [communities |-> "hflav", size |-> q.size, page |-> q.page,
                 sort |-> IF q.orders.s # <<>>
                          THEN Join(<<",">>, Items(q.orders))
                          ELSE Newest]
        query_string == BuildQueryString(q)
    IN  IF query_string # <<>>
        THEN [communities |-> base.communities, size |-> base.size,
              page |-> base.page, sort |-> base.sort, q |-> query_string]
        ELSE base

\* Variant: default_operator is applied to the held filters whenever there
\* is one.
FinalFilter_AlwaysCombine(filters, default_operator) ==
    IF Len(filters) >= 1
    THEN Combined(default_operator, filters)
    ELSE NoFilter

\* The final_filter expression of QueryBuilder.build
FinalFilter(filters, default_operator) ==
    IF Len(filters) > 1
    THEN Combined(default_operator, filters)
    ELSE IF filters # <<>> THEN filters[1] ELSE NoFilter

\* The builders given to merge_filters: query1 and query2 of build's
\* docstring.
OtherBuilders ==
    { <<Combined("NotFilter", <<NumericFilter>>)>>,
      <<Combined("OrFilter", <<TextFilter, DateRangeFilter>>)>> }

Paginations == {[size |-> 25, page |-> 3]}

\* QueryBuilder.__init__
QbInit ==
    /\ ChainIdle
    /\ ConvIdle
    /\ SvcIdle
    /\ RestIdle
    /\ qb_filters = <<>>
    /\ qb_sort = MostRecent
    /\ qb_page_size = 10
    /\ qb_page = 1
    /\ qb_ops = 0
    /\ qb_call = NoCall
    /\ query = [t |-> "None"]
    /\ params = [t |-> "None"]

\* A builder method is called before build().
BuilderMethod(name, arg) ==
    /\ query.t = "None"
    /\ qb_ops < MaxOps
    /\ qb_ops' = qb_ops + 1
    /\ qb_call' = [op |-> name, arg |-> arg]
    /\ UNCHANGED <<query, params>>
    /\ UNCHANGED <<chain_vars, conv_vars, svc_vars, rest_vars>>

Append_(filter) ==
    /\ qb_filters' = Append(qb_filters, filter)
    /\ UNCHANGED <<qb_sort, qb_page_size, qb_page>>

WithText == BuilderMethod("with_text", "title") /\ Append_(TextFilter)

WithDateRange == BuilderMethod("with_date_range", "created") /\ Append_(DateRangeFilter)

WithNumber == BuilderMethod("with_number", "version") /\ Append_(NumericFilter)

WithExistence == BuilderMethod("with_existence", "doi") /\ Append_(ExistenceFilter)

OrderBy ==
    \E field \in SortOptions : \E desc \in BOOLEAN :
        /\ BuilderMethod("order_by", IF desc THEN "desc" ELSE "asc")
        /\ qb_sort' = (IF desc THEN <<"-">> ELSE <<>>) \o field
        /\ UNCHANGED <<qb_filters, qb_page_size, qb_page>>

WithPagination ==
    \E p \in Paginations :
        /\ BuilderMethod("with_pagination", "size, page")
        /\ qb_page_size' = p.size
        /\ qb_page' = p.page
        /\ UNCHANGED <<qb_filters, qb_sort>>

MergeFilters ==
    \E other \in OtherBuilders :
        /\ BuilderMethod("merge_filters", "query")
        /\ qb_filters' = qb_filters \o other
        /\ UNCHANGED <<qb_sort, qb_page_size, qb_page>>

ApplyCombinator ==
    \E combinator \in Combinators :
        /\ BuilderMethod("apply_combinator", combinator)
        /\ qb_filters' = IF qb_filters # <<>>
                         THEN <<Combined(combinator, qb_filters)>>
                         ELSE qb_filters
        /\ UNCHANGED <<qb_sort, qb_page_size, qb_page>>

\* QueryBuilder.build(default_operator): self.query is ZenodoQuery and gets
\* (final_filter, self.sort, self.page_size, self.page) positionally.
BuildCall ==
    \E default_operator \in Combinators :
        /\ qb_call' = [op |-> "build", arg |-> default_operator]
        /\ query' = ZenodoQuery(FinalFilter(qb_filters, default_operator),
                                Str(qb_sort), qb_page_size, qb_page)
        /\ params' = [t |-> "None"]
        /\ UNCHANGED <<qb_filters, qb_sort, qb_page_size, qb_page, qb_ops>>
        /\ UNCHANGED <<chain_vars, conv_vars, svc_vars, rest_vars>>

\* query.build_params()
BuildParamsCall ==
    /\ query.t # "None"
    /\ params' = BuildParams(query)
    /\ UNCHANGED <<qb_filters, qb_sort, qb_page_size, qb_page, qb_ops, qb_call,
                   query>>
    /\ UNCHANGED <<chain_vars, conv_vars, svc_vars, rest_vars>>

QbNext ==
    \/ WithText
    \/ WithDateRange
    \/ WithNumber
    \/ WithExistence
    \/ OrderBy
    \/ WithPagination
    \/ MergeFilters
    \/ ApplyCombinator
    \/ BuildCall
    \/ BuildParamsCall

QbSpec == QbInit /\ [][QbNext]_vars

----------------------------------------------------------------------------
\* Properties of the query builder.

\* C19: for a query built by QueryBuilder.build, build_params returns
\* communities 'hflav', the builder's page size and page, a sort entry equal
\* to the builder's sort string, and a q entry equal to the filter's query
\* string exactly when a filter is present.
C19_BuildParams ==
    ("sort" \in DOMAIN params)
    => /\ params.communities = "hflav"
       /\ params.size = qb_page_size
       /\ params.page = qb_page
       /\ params.sort = qb_sort
       /\ query.filter.kind # None
              => ("q" \in DOMAIN params /\ params.q = BuildQuery(query.filter))
       /\ query.filter.kind = None => "q" \notin DOMAIN params

\* C20: build passes None to the query constructor when the builder holds no
\* filter, the filter itself when it holds one, and default_operator applied
\* to all held filters in insertion order when it holds more; an
\* apply_combinator on a non-empty builder leaves exactly one filter, the
\* combinator applied to the filters held before.
C20_BuildFilterSelection ==
    /\ [](query.t # "None"
            => query.filter =
                 IF qb_filters = <<>> THEN NoFilter
                 ELSE IF Len(qb_filters) = 1 THEN qb_filters[1]
                 ELSE Combined(qb_call.arg, qb_filters))
    /\ [][(qb_call'.op = "apply_combinator" /\ qb_ops' # qb_ops
              /\ qb_filters # <<>>)
            => qb_filters' = <<Combined(qb_call'.arg, qb_filters)>>]_vars

C20_Witness ==
    /\ qb_call.op = "build" /\ qb_call.arg = "AndFilter"
    /\ Len(qb_filters) = 1 /\ qb_filters[1].kind = "OrFilter"
    /\ Len(qb_filters[1].filters) = 2
    /\ query.t # "None" /\ query.filter = qb_filters[1]

----------------------------------------------------------------------------
\* GitlabSchemaHandler._try_to_get_schema_version on data files of a few
\* lines.

\* Number of lines of a data file.
MaxLines == 3

\* schema               -- contains 'schema', no ':'
LineSchemaBare == <<"s", "c", "h", "e", "m", "a", "\n">>

\* "schema" : "v2" ,    -- two parts, blanks between the quotes and the comma
LineSchemaSpaced ==
    <<"\"", "s", "c", "h", "e", "m", "a", "\"", " ", ":", " ",
      "\"", "v", "2", "\"", " ", ",", "\n">>

SampleLines ==
    {LineName, LineSchemaV1, LineSchemaUrl, LineSchemaBare, LineSchemaSpaced}

DataFiles == UNION {[1..n -> SampleLines] : n \in 0..MaxLines}

VerInit ==
    /\ ChainIdle
    /\ ConvIdle
    /\ SvcIdle
    /\ QbIdle
    /\ InvIdle
    /\ ExeIdle
    /\ data_lines \in DataFiles
    /\ schema_version = NoOutcome

\* _try_to_get_schema_version(data_path) on an existing file
TryToGetSchemaVersionCall ==
    /\ schema_version = NoOutcome
    /\ schema_version' = Return(ScanLines(data_lines, 1))
    /\ UNCHANGED data_lines
    /\ UNCHANGED <<chain_vars, conv_vars, svc_vars, qb_vars, inv_vars, exe_vars>>

VerNext == TryToGetSchemaVersionCall

VerSpec == VerInit /\ [][VerNext]_vars

----------------------------------------------------------------------------
\* Properties of the version scan.

CountOf(s, ch) == Cardinality({i \in 1..Len(s) : s[i] = ch})

\* The line names a schema version: it contains 'schema' and exactly one ':'.
NamesVersion(line) == Contains(line, SchemaWord) /\ CountOf(line, ":") = 1

\* The text after the ':' of such a line, without the whitespace around it
\* and then without the double quotes and commas at its ends.
TrimmedValue(line) ==
    LET colon == CHOOSE i \in 1..Len(line) : line[i] = ":"
    IN  Strip(Strip(SubSeq(line, colon + 1, Len(line)), Whitespace), {"\"", ","})

----------------------------------------------------------------------------
\* CommandInvoker and CommandHistory (services/command.py) as Service uses
\* them and as tests/services/test_command.py exercises them.

\* Number of invoker calls in a run.
MaxInvokerCalls == 5

\* The command Service.search_and_load_data_file hands to the invoker.
SearchAndLoad == "SearchAndLoadDataFile"

Commands == {"c1", "c2", SearchAndLoad}

\* What a command does when called: both methods return, execute raises, or
\* undo raises.  SearchAndLoadDataFile.undo only logs.
Behaviours ==
    { b \in [Commands -> {"ok", "execute_raises", "undo_raises"}] :
        b[SearchAndLoad] # "undo_raises" }

\* An invoker call, the command method it called (None when it called none)
\* and whether that method returned.
InvEntry(op, cmd, called, ok) ==
    [op |-> op, cmd |-> cmd, called |-> called, ok |-> ok]

InvInit ==
    /\ ChainIdle
    /\ ConvIdle
    /\ SvcIdle
    /\ QbIdle
    /\ VerIdle
    /\ ExeIdle
    /\ cmd_behaviour \in Behaviours
    /\ inv_command = None
    /\ inv_history = <<>>
    /\ inv_log = <<>>
    /\ inv_result = NoOutcome

InvRestUnchanged ==
    /\ UNCHANGED cmd_behaviour
    /\ UNCHANGED <<chain_vars, conv_vars, svc_vars, qb_vars, ver_vars, exe_vars>>

\* CommandHistory.add_command
AddCommand(history, cmd) == Append(history, cmd)

\* Variant: the oldest command of the history is taken.
UndoLast_Oldest(history) ==
    [cmd |-> Head(history), history |-> Tail(history)]

\* CommandHistory.undo_last on a non-empty history: the command taken off
\* and the history left.
UndoLast(history) ==
    [cmd |-> history[Len(history)],
     history |-> SubSeq(history, 1, Len(history) - 1)]

\* CommandInvoker.execute_command with the command c set
Execute(c, log) ==
    IF cmd_behaviour[c] = "execute_raises"
    THEN [out |-> Raise("ValueError", "Command failed"),
          history |-> inv_history,
          log |-> Append(log, InvEntry("execute_command", c, "execute", FALSE))]
    ELSE [out |-> Return("command result"),
          history |-> AddCommand(inv_history, c),
          log |-> Append(log, InvEntry("execute_command", c, "execute", TRUE))]

\* CommandInvoker.set_command(command)
SetCommand ==
    /\ Len(inv_log) < MaxInvokerCalls
    /\ \E c \in Commands :
          /\ inv_command' = c
          /\ inv_log' = Append(inv_log, InvEntry("set_command", c, None, TRUE))
    /\ inv_result' = Return(None)
    /\ UNCHANGED inv_history
    /\ InvRestUnchanged

\* CommandInvoker.execute_command()
ExecuteCommand ==
    /\ Len(inv_log) < MaxInvokerCalls
    /\ IF inv_command = None
       THEN /\ inv_result' = Raise("ValueError", "No command set")
            /\ inv_log' = Append(inv_log,
                                 InvEntry("execute_command", None, None, FALSE))
            /\ UNCHANGED inv_history
       ELSE /\ inv_result' = Execute(inv_command, inv_log).out
            /\ inv_history' = Execute(inv_command, inv_log).history
            /\ inv_log' = Execute(inv_command, inv_log).log
    /\ UNCHANGED inv_command
    /\ InvRestUnchanged

\* CommandInvoker.undo_command()
UndoCommand ==
    /\ Len(inv_log) < MaxInvokerCalls
    /\ IF inv_history = <<>>
       THEN /\ inv_result' = Return(None)
            /\ inv_log' = Append(inv_log,
                                 InvEntry("undo_command", None, None, TRUE))
            /\ UNCHANGED inv_history
       ELSE /\ inv_history' = UndoLast(inv_history).history
            /\ inv_log' =
                  Append(inv_log,
                         InvEntry("undo_command", UndoLast(inv_history).cmd, "undo",
                                  cmd_behaviour[UndoLast(inv_history).cmd]
                                      # "undo_raises"))
            /\ inv_result' =
                  IF cmd_behaviour[UndoLast(inv_history).cmd] = "undo_raises"
                  THEN Raise("RuntimeError", "Undo failed")
                  ELSE Return(None)
    /\ UNCHANGED inv_command
    /\ InvRestUnchanged

\* Service.search_and_load_data_file: set_command(SearchAndLoadDataFile(...))
\* and execute_command()
SearchAndLoadDataFileCall ==
    /\ Len(inv_log) + 1 < MaxInvokerCalls
    /\ inv_command' = SearchAndLoad
    /\ LET set == Append(inv_log, InvEntry("set_command", SearchAndLoad, None, TRUE))
       IN  /\ inv_result' = Execute(SearchAndLoad, set).out
           /\ inv_history' = Execute(SearchAndLoad, set).history
           /\ inv_log' = Execute(SearchAndLoad, set).log
    /\ InvRestUnchanged

InvNext ==
    \/ SetCommand
    \/ ExecuteCommand
    \/ UndoCommand
    \/ SearchAndLoadDataFileCall

InvSpec == InvInit /\ [][InvNext]_vars

----------------------------------------------------------------------------
\* Properties of the command invoker.

\* s without its last occurrence of c.
RemoveLast(s, c) ==
    LET at == CHOOSE i \in 1..Len(s) :
                  s[i] = c /\ \A j \in (i + 1)..Len(s) : s[j] # c
    IN  SubSeq(s, 1, at - 1) \o SubSeq(s, at + 1, Len(s))

\* The commands whose execute returned and whose undo was not called since,
\* in execution order, as the log of the first n invoker calls tells.
RECURSIVE ExecutedNotUndone(_, _)
ExecutedNotUndone(log, n) ==
    IF n = 0 THEN <<>>
    ELSE LET before == ExecutedNotUndone(log, n - 1)
         IN  CASE log[n].called = "execute" /\ log[n].ok ->
                       Append(before, log[n].cmd)
               [] log[n].called = "undo" -> RemoveLast(before, log[n].cmd)
               [] OTHER -> before

\* C27: the invoker's history is a LIFO stack: after any sequence of
\* set_command, execute_command and undo_command calls it holds, in
\* execution order, exactly the executed commands not yet undone;
\* undo_command calls undo on the most recently executed one and removes it,
\* and on an empty history it calls no undo and leaves the history empty.
C27_HistoryIsLifo ==
    /\ [](inv_history = ExecutedNotUndone(inv_log, Len(inv_log)))
    /\ [][(inv_log' # inv_log /\ inv_log'[Len(inv_log')].op = "undo_command")
            => IF inv_history = <<>>
               THEN /\ inv_log'[Len(inv_log')].called = None
                    /\ inv_history' = <<>>
               ELSE /\ inv_log'[Len(inv_log')].called = "undo"
                    /\ inv_log'[Len(inv_log')].cmd = inv_history[Len(inv_history)]
                    /\ inv_history' = SubSeq(inv_history, 1, Len(inv_history) - 1)
                    /\ Len(inv_log') = Len(inv_log) + 1]_vars

C27_Witness ==
    /\ Len(inv_log) = 5
    /\ inv_log[2].called = "execute" /\ inv_log[2].cmd = SearchAndLoad
    /\ inv_log[4].called = "execute" /\ inv_log[4].cmd = "c1"
    /\ inv_log[5].op = "undo_command" /\ inv_log[5].cmd = "c1"
    /\ inv_history = <<SearchAndLoad>>

----------------------------------------------------------------------------
\* SearchAndLoadDataFile.execute
\* (services/search_and_load_data_file_command.py) over a service that
\* behaves as ServiceInterface documents it, reading lines from input().

\* Number of input() reads in one execution.
MaxReads == 4

DigitChars == <<"0", "1", "2", "3", "4", "5", "6", "7", "8", "9">>

IsDigit(ch) == \E i \in 1..Len(DigitChars) : DigitChars[i] = ch

DigitValue(ch) == (CHOOSE i \in 1..Len(DigitChars) : DigitChars[i] = ch) - 1

RECURSIVE DigitsValue(_)
DigitsValue(s) ==
    IF s = <<>> THEN 0
    ELSE DigitsValue(SubSeq(s, 1, Len(s) - 1)) * 10 + DigitValue(s[Len(s)])

\* int(text): surrounding whitespace and one sign are allowed
IntOf(text) ==
    LET t == Strip(text, Whitespace)
        signed == t # <<>> /\ Head(t) \in {"+", "-"}
        digits == IF signed THEN Tail(t) ELSE t
    IN  IF digits = <<>> \/ \E i \in 1..Len(digits) : ~IsDigit(digits[i])
        THEN Raise("ValueError", "invalid literal for int() with base 10")
        ELSE Return(IF signed /\ Head(t) = "-"
                    THEN 0 - DigitsValue(digits)
                    ELSE DigitsValue(digits))

\* seq[index] of a Python list: 0-based, a negative index counts from the end
PyIndex(seq, index) ==
    IF index >= 0 /\ index < Len(seq) THEN Return(seq[index + 1])
    ELSE IF index < 0 /\ 0 - index <= Len(seq)
    THEN Return(seq[Len(seq) + index + 1])
    ELSE Raise("IndexError", "list index out of range")

\* What the user types.
InputLines ==
    { <<"0">>, <<"1">>, <<" ", "2">>, <<"-", "1">>, <<"3">>, <<"x">>, <<>> }

FoundRecord(id, children) == [id |-> id, children |-> children]

SearchOutcomes ==
    { Return(<<>>),
      Return(<<FoundRecord(11, <<"a.json">>)>>),
      Return(<<FoundRecord(11, <<"a.json">>),
               FoundRecord(12, <<"b.json", "c.json">>)>>),
      Raise("DataNotFoundException", "search failed") }

LoadOutcomes ==
    { Return("record"), Raise("DataAccessException", "download failed") }

\* A search, an input() read or a load made by execute.
Event(ev, what, text) == [ev |-> ev, what |-> what, text |-> text]

ExeInit ==
    /\ ChainIdle
    /\ ConvIdle
    /\ SvcIdle
    /\ QbIdle
    /\ VerIdle
    /\ InvIdle
    /\ found_records \in SearchOutcomes
    /\ load_outcome \in LoadOutcomes
    /\ exe_pc = "idle"
    /\ exe_query = <<"q">>
    /\ selected_record = 0
    /\ selected_file = 0
    /\ exe_events = <<>>
    /\ exe_result = NoOutcome

ExeRestUnchanged ==
    /\ UNCHANGED <<found_records, load_outcome>>
    /\ UNCHANGED <<chain_vars, conv_vars, svc_vars, qb_vars, ver_vars, inv_vars>>

Reads == Len(SelectSeq(exe_events, LAMBDA e : e.ev = "input"))

\* execute(): selected_record = 0, selected_file = 0
ExecuteStart ==
    /\ exe_pc = "idle"
    /\ exe_pc' = "search"
    /\ selected_record' = 0
    /\ selected_file' = 0
    /\ UNCHANGED <<exe_query, exe_events, exe_result>>
    /\ ExeRestUnchanged

\* while selected_record == 0: records = search_records_by_name(query)
SearchStep ==
    /\ exe_pc = "search"
    /\ IF selected_record # 0
       THEN /\ exe_pc' = "done"
            /\ exe_result' = Return(None)
            /\ UNCHANGED exe_events
       ELSE /\ exe_events' =
                  Append(exe_events, Event("search", "query", exe_query))
            /\ IF IsRaise(found_records)
               THEN exe_pc' = "done" /\ exe_result' = found_records
               ELSE exe_pc' = "read_record" /\ UNCHANGED exe_result
    /\ UNCHANGED <<exe_query, selected_record, selected_file>>
    /\ ExeRestUnchanged

\* selected_record = int(input()); then record = records[selected_record - 1]
ReadRecordStep ==
    /\ exe_pc = "read_record"
    /\ Reads < MaxReads
    /\ \E text \in InputLines :
          /\ exe_events' = Append(exe_events, Event("input", "record", text))
          /\ IF IsRaise(IntOf(text))
             THEN /\ exe_pc' = "search"
                  /\ UNCHANGED <<selected_record, exe_result>>
             ELSE /\ selected_record' = IntOf(text).val
                  /\ IF IntOf(text).val = 0
                     THEN exe_pc' = "read_query" /\ UNCHANGED exe_result
                     ELSE IF IsRaise(PyIndex(found_records.val, IntOf(text).val - 1))
                     THEN /\ exe_pc' = "done"
                          /\ exe_result' =
                                PyIndex(found_records.val, IntOf(text).val - 1)
                     ELSE exe_pc' = "read_file" /\ UNCHANGED exe_result
    /\ UNCHANGED <<exe_query, selected_file>>
    /\ ExeRestUnchanged

\* self._query = input()
ReadQueryStep ==
    /\ exe_pc = "read_query"
    /\ Reads < MaxReads
    /\ \E text \in InputLines :
          /\ exe_events' = Append(exe_events, Event("input", "query", text))
          /\ exe_query' = text
    /\ exe_pc' = "search"
    /\ UNCHANGED <<selected_record, selected_file, exe_result>>
    /\ ExeRestUnchanged

\* The load that ends execute, for the file selection n of the record chosen.
LoadSelected(n) ==
    LET record == PyIndex(found_records.val, selected_record - 1).val
        child == PyIndex(record.children, n - 1)
    IN  IF IsRaise(child)
        THEN [out |-> child, events |-> <<>>]
        ELSE [out |-> load_outcome,
              events |-> <<Event("load", record.id, child.val)>>]

\* Variant: after a non-integer file selection the file selection is read
\* again.
ReadFileStep_AskAgain ==
    /\ exe_pc = "read_file"
    /\ Reads < MaxReads
    /\ \E text \in InputLines :
          IF IsRaise(IntOf(text))
          THEN /\ exe_events' = Append(exe_events, Event("input", "file", text))
               /\ exe_pc' = "read_file"
               /\ UNCHANGED <<selected_record, selected_file, exe_result>>
          ELSE /\ exe_events' =
                     Append(exe_events, Event("input", "file", text))
                         \o LoadSelected(IntOf(text).val).events
               /\ selected_file' = IntOf(text).val
               /\ exe_pc' = "done"
               /\ exe_result' = LoadSelected(IntOf(text).val).out
               /\ UNCHANGED selected_record
    /\ UNCHANGED exe_query
    /\ ExeRestUnchanged

\* selected_file = int(input()); filename = record.children[...].name;
\* return load_data_file(record_id=record.id, filename=filename)
ReadFileStep ==
    /\ exe_pc = "read_file"
    /\ Reads < MaxReads
    /\ \E text \in InputLines :
          IF IsRaise(IntOf(text))
          THEN /\ exe_events' = Append(exe_events, Event("input", "file", text))
               /\ selected_record' = 0
               /\ exe_pc' = "search"
               /\ UNCHANGED <<selected_file, exe_result>>
          ELSE /\ exe_events' =
                     Append(exe_events, Event("input", "file", text))
                         \o LoadSelected(IntOf(text).val).events
               /\ selected_file' = IntOf(text).val
               /\ exe_pc' = "done"
               /\ exe_result' = LoadSelected(IntOf(text).val).out
               /\ UNCHANGED selected_record
    /\ UNCHANGED exe_query
    /\ ExeRestUnchanged

ExeNext ==
    \/ ExecuteStart
    \/ SearchStep
    \/ ReadRecordStep
    \/ ReadQueryStep
    \/ ReadFileStep

ExeSpec == ExeInit /\ [][ExeNext]_vars

----------------------------------------------------------------------------
\* Properties of the load command.

IsSelection(e) == e.ev = "input" /\ e.what \in {"record", "file"}

\* A selection that loads nothing: a record selection that is no integer or
\* is 0, a file selection that is no integer.
IsRejectedSelection(e) ==
    /\ IsSelection(e)
    /\ \/ IsRaise(IntOf(e.text))
       \/ (e.what = "record" /\ IntOf(e.text).val = 0)

\* C30: execute calls service.load_data_file at most once, and only after a
\* search followed by an integer, non-zero record selection and an integer
\* file selection; a non-integer record selection, a record selection of 0
\* or a non-integer file selection loads nothing and is followed by a new
\* search before the next selection is read.
C30_LoadAfterValidSelections ==
    /\ Cardinality({i \in 1..Len(exe_events) : exe_events[i].ev = "load"}) <= 1
    /\ \A i \in 1..Len(exe_events) :
          exe_events[i].ev = "load"
          => /\ i >= 4 /\ i = Len(exe_events)
             /\ exe_events[i - 3].ev = "search"
             /\ exe_events[i - 2].what = "record"
             /\ IsSelection(exe_events[i - 2])
             /\ IsReturn(IntOf(exe_events[i - 2].text))
             /\ IntOf(exe_events[i - 2].text).val # 0
             /\ exe_events[i - 1].what = "file"
             /\ IsSelection(exe_events[i - 1])
             /\ IsReturn(IntOf(exe_events[i - 1].text))
    /\ \A i \in 1..Len(exe_events) :
          IsRejectedSelection(exe_events[i])
          => /\ i < Len(exe_events) => exe_events[i + 1].ev # "load"
             /\ \A j \in (i + 1)..Len(exe_events) :
                   IsSelection(exe_events[j])
                   => \E k \in (i + 1)..(j - 1) : exe_events[k].ev = "search"
             /\ i = Len(exe_events) => exe_pc \in {"search", "read_query"}

C30_Witness ==
    /\ exe_pc = "done" /\ IsReturn(exe_result) /\ exe_result.val = "record"
    /\ Len(exe_events) = 7
    /\ exe_events[2] = Event("input", "record", <<"-", "1">>)
    /\ exe_events[3] = Event("input", "file", <<"x">>)
    /\ exe_events[4].ev = "search"
    /\ exe_events[5] = Event("input", "record", <<" ", "2">>)
    /\ exe_events[7] = Event("load", 12, "c.json")

====
